---------------------------- MODULE Spec2Model ----------------------------
(***************************************************************************)
(* A model of the knockout-esnext binding engine:                          *)
(*   - the virtual-element adapter (src/src/virtualElements.js),           *)
(*   - the binding context, the async completion tracker and the binding   *)
(*     application driver (src/unnamed/part_000).                          *)
(*                                                                         *)
(* One operation of the program (an exported function called by the host)  *)
(* is one action.  JavaScript runs each call to completion, so an action   *)
(* computes the whole call: the operators below thread a "world" record    *)
(* (the mutable heap the call touches, the log of what it did, and the     *)
(* exception it raised, if any) through the statements of the source.      *)
(***************************************************************************)
EXTENDS Integers, Sequences, FiniteSets, TLC

VARIABLES
    handlers,   \* the binding-handler registry: key -> handler definition
    dom,        \* the document: kind and child list of every node
    info,       \* per-node dom data under BOUND_ELEMENT_DOM_DATA_KEY
    gen,        \* per node: how many bindingInfo objects it has used up
    tagged,     \* the end comments carrying SYM_MATCHED_END_COMMENT
    last,       \* the last operation: its name, arguments, log and outcome
    bound,      \* history: per node, the binding applications it went through
    heap,       \* the binding context objects the host created, by identity
    store,      \* the current value of every observable
    computeds   \* the computeds made for update functions (lines 552-558)

vars == <<handlers, dom, info, gen, tagged, last, bound, heap, store, computeds>>

---------------------------------------------------------------------------
(* Small helpers on sequences and sets.                                    *)

Range(s) == {s[i] : i \in DOMAIN s}

IndexOf(s, x) == IF x \in Range(s) THEN CHOOSE i \in DOMAIN s : s[i] = x /\ \A j \in 1..(i-1) : s[j] # x ELSE 0

RemoveAt(s, i) == SubSeq(s, 1, i-1) \o SubSeq(s, i+1, Len(s))

IsInjective(s) == \A i, j \in DOMAIN s : s[i] = s[j] => i = j

\* All duplicate-free sequences over S of length at most n.
SeqsUpTo(S, n) == UNION {{s \in [1..k -> S] : IsInjective(s)} : k \in 0..n}

---------------------------------------------------------------------------
(* Binding keys and the handler registry (ko.bindingHandlers).             *)

EVENT_CHILDREN_COMPLETE == "childrenComplete"
EVENT_DESCENDENTS_COMPLETE == "descendantsComplete"

\* Names of ordinary bindings used in the model.
HandlerKeys == {"a", "b", "c"}

Keys == HandlerKeys \cup {EVENT_CHILDREN_COMPLETE, EVENT_DESCENDENTS_COMPLETE}

\* The longest `after` list of a handler drawn by the sorting specification.
MaxAfter == 2

\* A registry entry.  exists = FALSE: getBindingHandler(key) is undefined.
\* init/update: "none" (no function), "plain" (returns nothing), "controls"
\* (init returns {controlsDescendantBindings: true}), "throws".
NoHandler == [exists |-> FALSE, hasAfter |-> FALSE, after |-> <<>>,
              init |-> "none", update |-> "none", allowedVirtual |-> FALSE]

Handler(after, hasAfter, init, update, av) ==
    [exists |-> TRUE, hasAfter |-> hasAfter, after |-> after,
     init |-> init, update |-> update, allowedVirtual |-> av]

getBindingHandler(key) == handlers[key]

---------------------------------------------------------------------------
(* Errors.  type "none" is normal completion.                              *)

NoErr == [type |-> "none", node |-> 0, binding |-> "", first |-> "", second |-> "", stack |-> <<>>]

Err(type, node) == [NoErr EXCEPT !.type = type, !.node = node]

---------------------------------------------------------------------------
(* _topologicalSortBindings: depth-first sort of the binding keys of one   *)
(* node by the handlers' `after` lists.  `bindings` is the sequence of the *)
(* keys of the bindings object in Object.keys order.  The sort state is    *)
(* [result, considered, stack, err].                                       *)

SortInit == [result |-> <<>>, considered |-> {}, stack |-> <<>>, err |-> FALSE]

RECURSIVE PushBinding(_, _, _)
RECURSIVE PushDependencies(_, _, _, _)

\* The loop without the test of the stack.
PushDependenciesUnchecked(S, after, i, bindings) ==
    IF S.err \/ i > Len(after) THEN S
    ELSE LET dep == after[i] IN
         IF dep \in Range(bindings)
         THEN PushDependencies(PushBinding(S, dep, bindings), after, i + 1, bindings)
         ELSE PushDependencies(S, after, i + 1, bindings)

\* The loop over bindingAfter (lines 404-411), from position i.
PushDependencies(S, after, i, bindings) ==
    IF S.err \/ i > Len(after) THEN S
    ELSE LET dep == after[i] IN
         IF dep \in Range(bindings)
         THEN IF dep \in Range(S.stack)
              THEN [S EXCEPT !.err = TRUE]
              ELSE PushDependencies(PushBinding(S, dep, bindings), after, i + 1, bindings)
         ELSE PushDependencies(S, after, i + 1, bindings)

\* A sort that adds the current binding before its dependencies.
PushBindingBeforeDependencies(S, bindingKey, bindings) ==
    IF S.err \/ bindingKey \in S.considered THEN S
    ELSE LET S1 == [S EXCEPT !.considered = @ \cup {bindingKey}]
             binding == getBindingHandler(bindingKey)
         IN  IF ~binding.exists THEN S1
             ELSE LET S2 == [S1 EXCEPT !.result = Append(@, bindingKey)] IN
                  IF binding.hasAfter
                  THEN LET S3 == PushDependencies(
                                   [S2 EXCEPT !.stack = Append(@, bindingKey)],
                                   binding.after, 1, bindings)
                       IN  IF S3.err THEN S3
                           ELSE [S3 EXCEPT !.stack = SubSeq(@, 1, Len(@) - 1)]
                  ELSE S2

\* _pushBinding (lines 391-416).
PushBinding(S, bindingKey, bindings) ==
    IF S.err \/ bindingKey \in S.considered THEN S
    ELSE LET S1 == [S EXCEPT !.considered = @ \cup {bindingKey}]
             binding == getBindingHandler(bindingKey)
         IN  IF ~binding.exists THEN S1
             ELSE LET S2 == IF binding.hasAfter
                            THEN LET S3 == PushDependencies(
                                             [S1 EXCEPT !.stack = Append(@, bindingKey)],
                                             binding.after, 1, bindings)
                                 IN  IF S3.err THEN S3
                                     ELSE [S3 EXCEPT !.stack = SubSeq(@, 1, Len(@) - 1)]
                            ELSE S1
                  IN  IF S2.err THEN S2
                      ELSE [S2 EXCEPT !.result = Append(@, bindingKey)]

RECURSIVE SortFrom(_, _, _)
SortFrom(S, bindings, i) ==
    IF S.err \/ i > Len(bindings) THEN S
    ELSE SortFrom(PushBinding(S, bindings[i], bindings), bindings, i + 1)

\* The whole function: [err, stack, result].
topologicalSortBindings(bindings) == SortFrom(SortInit, bindings, 1)

---------------------------------------------------------------------------
(* The document.  dom.kind[n] is the kind of node n, dom.kids[n] the       *)
(* sequence of its DOM children.  Comment kinds stand for the class of the *)
(* comment's text under START_COMMENT_REGEX and END_COMMENT_REGEX.         *)

ElementKinds == {"div", "script", "textarea", "template"}
CommentKinds == {"ko", "/ko", "comment"}
NodeKinds == ElementKinds \cup CommentKinds \cup {"text"}

nodeType(n) ==
    IF dom.kind[n] \in ElementKinds THEN 1
    ELSE IF dom.kind[n] \in CommentKinds THEN 8
    ELSE 3

isStartComment(n) == nodeType(n) = 8 /\ dom.kind[n] = "ko"
isEndComment(n) == nodeType(n) = 8 /\ dom.kind[n] = "/ko"

BINDING_DOES_NOT_RECURSE_INTO_ELEMENT_TYPES == {"script", "textarea", "template"}

\* The world a call works on.  kids and tagged are the mutable parts of the
\* document, info and gen the dom data, log what the call did so far (calls
\* of handlers and callbacks, notifications), err the exception in flight.
World == [kids |-> dom.kids, info |-> info, gen |-> gen, tagged |-> tagged,
          log |-> <<>>, err |-> NoErr]

Throw(W, e) == IF W.err.type # "none" THEN W ELSE [W EXCEPT !.err = e]
Failed(W) == W.err.type # "none"
Log(W, e) == [W EXCEPT !.log = Append(@, e)]

\* node.parentNode (0: none), node.nextSibling and node.firstChild (0: null).
parentNode(W, n) ==
    IF \E p \in DOMAIN W.kids : n \in Range(W.kids[p])
    THEN CHOOSE p \in DOMAIN W.kids : n \in Range(W.kids[p])
    ELSE 0

domNextSibling(W, n) ==
    LET p == parentNode(W, n) IN
    IF p = 0 THEN 0
    ELSE LET i == IndexOf(W.kids[p], n) IN
         IF i < Len(W.kids[p]) THEN W.kids[p][i + 1] ELSE 0

domFirstChild(W, n) == IF Len(W.kids[n]) > 0 THEN W.kids[n][1] ELSE 0

---------------------------------------------------------------------------
(* Virtual elements.  Every operator returns [W, val]: the world after the *)
(* call (end comments tagged, an exception raised) and the value returned. *)

STRUCTURAL_ERRORS == {"NoClosingComment", "EndCommentFirstChild", "UnmatchedEndComment"}

\* A scan that stops at the first end comment, whatever the depth.
RECURSIVE ScanToFirstEndComment(_, _, _, _)
ScanToFirstEndComment(W, currentNode, depth, children) ==
    IF currentNode = 0 THEN [W |-> W, found |-> FALSE, children |-> children]
    ELSE IF isEndComment(currentNode)
    THEN [W |-> [W EXCEPT !.tagged = @ \cup {currentNode}], found |-> TRUE,
          children |-> children]
    ELSE ScanToFirstEndComment(W, domNextSibling(W, currentNode), depth,
                               Append(children, currentNode))

\* The while loop of _getVirtualChildren (lines 31-43) from currentNode on.
\* found = FALSE: the siblings ran out before depth reached zero.
RECURSIVE ScanVirtualChildren(_, _, _, _)
ScanVirtualChildren(W, currentNode, depth, children) ==
    IF currentNode = 0 THEN [W |-> W, found |-> FALSE, children |-> children]
    ELSE IF isEndComment(currentNode)
    THEN LET W1 == [W EXCEPT !.tagged = @ \cup {currentNode}] IN
         IF depth - 1 = 0
         THEN [W |-> W1, found |-> TRUE, children |-> children]
         ELSE ScanVirtualChildren(W1, domNextSibling(W1, currentNode), depth - 1,
                                  Append(children, currentNode))
    ELSE ScanVirtualChildren(W, domNextSibling(W, currentNode),
                             IF isStartComment(currentNode) THEN depth + 1 ELSE depth,
                             Append(children, currentNode))

\* A _getVirtualChildren that returns null for an unclosed start comment
\* whatever allowUnbalanced is.
getVirtualChildrenNeverThrows(W, startComment, allowUnbalanced) ==
    LET Scanned(r) ==
            IF r.found THEN [W |-> r.W, val |-> [null |-> FALSE, children |-> r.children]]
            ELSE [W |-> r.W, val |-> [null |-> TRUE, children |-> <<>>]]
    IN  Scanned(ScanVirtualChildren(W, domNextSibling(W, startComment), 1, <<>>))

\* _getVirtualChildren.  val = [null, children]; null = TRUE is the null result.
getVirtualChildren(W, startComment, allowUnbalanced) ==
    LET Scanned(r) ==
            IF r.found THEN [W |-> r.W, val |-> [null |-> FALSE, children |-> r.children]]
            ELSE IF ~allowUnbalanced
            THEN [W |-> Throw(r.W, Err("NoClosingComment", startComment)),
                  val |-> [null |-> TRUE, children |-> <<>>]]
            ELSE [W |-> r.W, val |-> [null |-> TRUE, children |-> <<>>]]
    IN  Scanned(ScanVirtualChildren(W, domNextSibling(W, startComment), 1, <<>>))

\* _getMatchingEndComment.  val is the end comment, or 0 for null.
getMatchingEndComment(W, startComment, allowUnbalanced) ==
    LET Matched(r) ==
            IF Failed(r.W) \/ r.val.null THEN [W |-> r.W, val |-> 0]
            ELSE LET n == Len(r.val.children) IN
                 [W |-> r.W,
                  val |-> domNextSibling(r.W, IF n > 0 THEN r.val.children[n]
                                                       ELSE startComment)]
    IN  Matched(getVirtualChildren(W, startComment, allowUnbalanced))

\* childNodes.  val is the sequence of children.
childNodes(W, node) ==
    LET Children(r) == [W |-> r.W, val |-> r.val.children] IN
    IF isStartComment(node)
    THEN Children(getVirtualChildren(W, node, FALSE))
    ELSE [W |-> W, val |-> W.kids[node]]

\* firstChild.  val is the node, or 0 for null.
firstChild(W, node) ==
    LET First(c) ==
            IF c # 0 /\ isEndComment(c)
            THEN [W |-> Throw(W, Err("EndCommentFirstChild", node)), val |-> 0]
            ELSE [W |-> W, val |-> c]
        Sib(s) ==
            IF s = 0 \/ isEndComment(s) THEN [W |-> W, val |-> 0] ELSE [W |-> W, val |-> s]
    IN  IF ~isStartComment(node)
        THEN First(domFirstChild(W, node))
        ELSE Sib(domNextSibling(W, node))

\* A nextSibling that takes every end comment for a matched one.
nextSiblingIgnoresTag(W, node0) ==
    LET Sibling(m, s) ==
            IF s # 0 /\ isEndComment(s) THEN [W |-> m.W, val |-> 0]
            ELSE [W |-> m.W, val |-> s]
        From(m) ==
            IF Failed(m.W) THEN [W |-> m.W, val |-> 0]
            ELSE Sibling(m, domNextSibling(m.W, m.val))
    IN  IF isStartComment(node0)
        THEN From(getMatchingEndComment(W, node0, FALSE))
        ELSE From([W |-> W, val |-> node0])

\* nextSibling.  val is the node, or 0 for null.
nextSibling(W, node0) ==
    LET Sibling(m, s) ==
            IF s # 0 /\ isEndComment(s)
            THEN IF s \notin m.W.tagged
                 THEN [W |-> Throw(m.W, Err("UnmatchedEndComment", m.val)), val |-> 0]
                 ELSE [W |-> m.W, val |-> 0]
            ELSE [W |-> m.W, val |-> s]
        From(m) ==
            IF Failed(m.W) THEN [W |-> m.W, val |-> 0]
            ELSE Sibling(m, domNextSibling(m.W, m.val))
    IN  IF isStartComment(node0)
        THEN From(getMatchingEndComment(W, node0, FALSE))
        ELSE From([W |-> W, val |-> node0])

---------------------------------------------------------------------------
(* Binding contexts.  A context is the record of its properties; absent    *)
(* properties hold "undefined" (0 for references).  sub is the value of    *)
(* context[CONTEXT_SUBSCRIBABLE]: the id of the context's computed, or 0.  *)
(* anc is context[CONTEXT_ANCESTOR_BINDING_INFO]: a bindingInfo reference  *)
(* [node, gen], node = 0 when the property is absent.                      *)

Undefined == "undefined"
ViewModels == {"vm1", "vm2"}
Observables == {"o1", "o2"}
PropNames == {"x", "y"}

NoRef == [node |-> 0, gen |-> 0]

NoCtx == [isCtx |-> FALSE, data |-> Undefined, rawData |-> Undefined, root |-> Undefined,
          parents |-> <<>>, hasParent |-> FALSE, parent |-> Undefined, parentContext |-> 0,
          named |-> [k \in PropNames |-> Undefined], ko |-> FALSE,
          sub |-> 0, anc |-> NoRef, infoProps |-> {}, dataDep |-> FALSE]

\* The arguments the constructor keeps in the closure of _updateContext.
\* acc.k: "value" (a plain value v), "obs" (the observable o itself),
\* "fn" (a function returning o()), "fnObs" (a function returning o unread),
\* "fnConst" (a function returning v), "inherit" (INHERIT_PARENT_VM_DATA).
\* ext: the extendCallback: "none", "child" (createChildContext, lines 169-177),
\* "noChild" (lines 161-166), "extend" (line 186, properties = props),
\* "anc" (line 304, the callback of startPossiblyAsyncContentBinding).
Accessor(k, v, o) == [k |-> k, v |-> v, o |-> o]
Value(v) == Accessor("value", v, "")

\* inner: for "noChild", the alias and the accessor of createChildContext.
CtxArgs(acc, alias, ext, props, inner, ancRef, ancProps, exportDeps, dataDep) ==
    [acc |-> acc, alias |-> alias, ext |-> ext, props |-> props, inner |-> inner,
     ancRef |-> ancRef, ancProps |-> ancProps,
     exportDependencies |-> exportDeps, dataDependency |-> dataDep]

\* What realDataItemOrAccessor() (or the item itself) evaluates to, what
\* unwrapObservable makes of it, and the observables read on the way.
DataItemOrObservable(acc, O) ==
    CASE acc.k = "value" -> acc.v
      [] acc.k = "obs" -> acc.o
      [] acc.k = "fn" -> O[acc.o]
      [] acc.k = "fnObs" -> acc.o
      [] acc.k = "fnConst" -> acc.v
      [] OTHER -> Undefined

unwrapObservable(x, O) == IF x \in Observables THEN O[x] ELSE x

AccessorReads(acc) == IF acc.k \in {"obs", "fn", "fnObs"} THEN {acc.o} ELSE {}

\* Object.assign(this, parentContext): every own property of the parent.
AssignParent(self, P) ==
    [self EXCEPT
        !.data = P.data, !.rawData = P.rawData, !.root = P.root, !.parents = P.parents,
        !.ko = P.ko \/ @, !.sub = P.sub,
        !.hasParent = P.hasParent \/ @,
        !.parent = IF P.hasParent THEN P.parent ELSE @,
        !.parentContext = IF P.hasParent THEN P.parentContext ELSE @,
        !.named = [k \in PropNames |-> IF P.named[k] # Undefined THEN P.named[k] ELSE @[k]],
        !.anc = IF P.anc.node # 0 THEN P.anc ELSE @,
        !.infoProps = @ \cup P.infoProps,
        !.dataDep = P.dataDep \/ @]

\* An extendCallback whose child keeps the $parents of its parent.
ExtendCallbackKeepsParents(c, P, parentId, A, O) ==
    CASE A.ext = "child" ->
            LET c1 == [c EXCEPT !.hasParent = TRUE, !.parentContext = parentId,
                                !.parent = P.data, !.parents = P.parents]
            IN  [c1 EXCEPT !.named = [k \in PropNames |->
                                        IF A.props[k] # Undefined THEN A.props[k] ELSE @[k]]]
      [] A.ext = "noChild" ->
            LET c1 == [c EXCEPT !.named = [k \in PropNames |->
                                        IF A.props[k] # Undefined THEN A.props[k] ELSE @[k]]]
            IN  [c1 EXCEPT !.named[A.inner.alias] = DataItemOrObservable(A.inner.acc, O)]
      [] A.ext = "extend" ->
            [c EXCEPT !.named = [k \in PropNames |->
                                    IF A.props[k] # Undefined THEN A.props[k] ELSE @[k]]]
      [] A.ext = "anc" ->
            [c EXCEPT !.anc = A.ancRef, !.infoProps = @ \cup A.ancProps]
      [] OTHER -> c

\* The extendCallback (line 109).  parentId is the parent context as the
\* callback's second argument sees it (a heap id; 0 for a context by value).
ExtendCallback(c, P, parentId, A, O) ==
    CASE A.ext = "child" ->
            LET c1 == [c EXCEPT !.hasParent = TRUE, !.parentContext = parentId,
                                !.parent = P.data, !.parents = <<P.data>> \o P.parents]
            IN  [c1 EXCEPT !.named = [k \in PropNames |->
                                        IF A.props[k] # Undefined THEN A.props[k] ELSE @[k]]]
      [] A.ext = "noChild" ->
            LET c1 == [c EXCEPT !.named = [k \in PropNames |->
                                        IF A.props[k] # Undefined THEN A.props[k] ELSE @[k]]]
            IN  [c1 EXCEPT !.named[A.inner.alias] = DataItemOrObservable(A.inner.acc, O)]
      [] A.ext = "extend" ->
            [c EXCEPT !.named = [k \in PropNames |->
                                    IF A.props[k] # Undefined THEN A.props[k] ELSE @[k]]]
      [] A.ext = "anc" ->
            [c EXCEPT !.anc = A.ancRef, !.infoProps = @ \cup A.ancProps]
      [] OTHER -> c

\* A run that leaves $rawData and $data as an earlier run set them.
SetDataOnce(c, A, dataItemOrObservable, dataItem) ==
    LET c3 == IF A.acc.k = "inherit" \/ c.data # Undefined THEN c
              ELSE [c EXCEPT !.rawData = dataItemOrObservable, !.data = dataItem]
    IN  IF A.alias # "" THEN [c3 EXCEPT !.named[A.alias] = dataItem] ELSE c3

\* Lines 99-106: $rawData, $data and the alias.
SetData(c, A, dataItemOrObservable, dataItem) ==
    LET c3 == IF A.acc.k = "inherit" THEN c
              ELSE [c EXCEPT !.rawData = dataItemOrObservable, !.data = dataItem]
    IN  IF A.alias # "" THEN [c3 EXCEPT !.named[A.alias] = dataItem] ELSE c3

\* A run of _updateContext that never reads the parent's subscribable.
parentCtxSubscribableUnread(P) == 0

\* Lines 112-117: parentContext && parentContext[CONTEXT_SUBSCRIBABLE], the
\* computed of the parent context (0: none), which the run reads.
parentCtxSubscribable(P) == IF P.isCtx THEN P.sub ELSE 0

\* _updateContext (lines 66-124) run on the object `self`, with the parent
\* context P (NoCtx: none) and _subscribable = sub.  Returns the object's
\* properties after the run and the dependencies read during it.
updateContext(self, P, parentId, A, sub, O) ==
    LET dataItemOrObservable == DataItemOrObservable(A.acc, O)
        dataItem0 == unwrapObservable(dataItemOrObservable, O)
        shouldInheritData == A.acc.k = "inherit"
        \* lines 74-95: the parent's properties, or the root's own
        Inherit == IF P.isCtx THEN AssignParent(self, P)
                   ELSE [self EXCEPT !.parents = <<>>, !.root = dataItem0, !.ko = TRUE]
        \* line 97
        SetSubscribable(c) == [c EXCEPT !.isCtx = TRUE, !.sub = sub]
        SetDataItem(c) ==
            SetData(c, A, dataItemOrObservable, IF shouldInheritData THEN c.data ELSE dataItem0)
        \* lines 115-121
        SetDataDependency(c) == IF A.dataDependency THEN [c EXCEPT !.dataDep = TRUE] ELSE c
    IN  [ctx |-> SetDataDependency(
                    ExtendCallback(SetDataItem(SetSubscribable(Inherit)), P, parentId, A, O)),
         reads |-> (IF shouldInheritData THEN {} ELSE AccessorReads(A.acc))
                   \cup (IF A.ext = "noChild" /\ A.inner.acc.k # "obs"
                         THEN AccessorReads(A.inner.acc) ELSE {}),
         readsParent |-> parentCtxSubscribable(P) # 0]

NoProps == [k \in PropNames |-> Undefined]
NoInner == [alias |-> "", acc |-> Value(Undefined)]

\* new KoBindingContext(...) when the run of _updateContext read nothing
\* reactive: the computed is inactive and context[CONTEXT_SUBSCRIBABLE] is
\* reset to undefined (lines 131-143).
StaticContext(P, A) ==
    [updateContext(NoCtx, P, 0, A, 0, [o \in Observables |-> Undefined]).ctx EXCEPT !.sub = 0]

\* _getBindingContext for a view model that is a plain value.
RootContext(vm) ==
    StaticContext(NoCtx, CtxArgs(Value(vm), "", "none", NoProps, NoInner, NoRef, {}, FALSE, FALSE))

---------------------------------------------------------------------------
(* bindingInfo: the per-node record kept in dom data.  A node has at most  *)
(* one live record; cleaning the node drops it, and a later getOrSet makes *)
(* a new object.  A reference [node, gen] names the record node had when   *)
(* gen[node] = gen.  The fields of the record's AsyncCompleteContext are   *)
(* kept with it: ac is "undefined" (never set), "null" or "active", and    *)
(* acDesc, acCC, acAnc are asyncDescendants, childrenComplete and          *)
(* ancestorBindingInfo of the active context.  Four fields are history,   *)
(* not state of the source: for the context the record has or had last,    *)
(* acFired counts its descendantsComplete notifications (up to 2),         *)
(* acRegistered holds the nodes that registered with it, acUnfired those   *)
(* that have not notified descendantsComplete since they registered, and   *)
(* acDisposed those whose context was disposed of since they registered.   *)

NoInfo == [exists |-> FALSE, alreadyBound |-> FALSE, context |-> NoCtx,
           hasNotifiedEvents |-> FALSE, notifiedEvents |-> {},
           hasEventSubscribable |-> FALSE, subs |-> <<>>,
           ac |-> "undefined", acDesc |-> <<>>, acCC |-> FALSE, acAnc |-> NoRef,
           disposeCb |-> FALSE,
           acFired |-> 0, acRegistered |-> {}, acUnfired |-> {}, acDisposed |-> {}]

\* getOrSetDomData(node, BOUND_ELEMENT_DOM_DATA_KEY, {})
getOrSetDomData(W, node) ==
    IF W.info[node].exists THEN W ELSE [W EXCEPT !.info[node] = [NoInfo EXCEPT !.exists = TRUE]]

RefOf(W, node) == [node |-> node, gen |-> W.gen[node]]

\* The bindingInfo object a reference names: the live record, or a dropped
\* one, whose asyncContext is falsy for good (see CleanNode).
IsLive(W, ref) == ref.node # 0 /\ W.gen[ref.node] = ref.gen /\ W.info[ref.node].exists
HasAsyncContext(W, ref) == IsLive(W, ref) /\ W.info[ref.node].ac = "active"

\* One entry of the log of a call.
Ev(ev, node) == [ev |-> ev, node |-> node, key |-> "", ctx |-> NoCtx, nodes |-> <<>>,
                 data |-> Undefined, controls |-> FALSE, tracked |-> FALSE,
                 ccNotified |-> FALSE, ccFlag |-> FALSE, outstanding |-> 0,
                 fired |-> 0, registered |-> {}, unfired |-> {}, disposed |-> {}]

\* A contextFor that reads the dom data of any node.
contextForAnyNode(W, node) ==
    IF node # 0 /\ W.info[node].exists THEN W.info[node].context ELSE NoCtx

\* contextFor and dataFor on a given world.
contextForIn(W, node) ==
    IF node # 0 /\ nodeType(node) \in {1, 8} /\ W.info[node].exists
    THEN W.info[node].context ELSE NoCtx

dataForIn(W, node) ==
    LET context == contextForIn(W, node) IN IF context.isCtx THEN context.data ELSE Undefined

---------------------------------------------------------------------------
(* bindingEvent and AsyncCompleteContext.                                  *)

\* Callbacks of which that of childrenComplete runs without children too.
RunCallbackWithoutChildren(W, node, cb) ==
    LET ChildrenComplete(r) ==
            IF Failed(r.W) THEN r.W
            ELSE Log(r.W, [Ev("childrenCompleteCallback", node) EXCEPT
                              !.nodes = r.val,
                              !.data = IF Len(r.val) = 0 THEN Undefined
                                       ELSE dataForIn(r.W, r.val[1])])
        DescendantsComplete(r) ==
            IF Failed(r.W) \/ r.val = 0 THEN r.W
            ELSE Log(r.W, Ev("descendantsCompleteCallback", node))
    IN  CASE cb = "ccBinding" -> ChildrenComplete(childNodes(W, node))
          [] cb = "dcBinding" -> DescendantsComplete(firstChild(W, node))
          [] OTHER -> Log(W, [Ev("userCallback", node) EXCEPT !.key = cb])

\* A subscribed callback runs.  "ccBinding" and "dcBinding" are the
\* callbacks of lines 499-507 and 512-517, "user" one given to subscribe.
RunCallback(W, node, cb) ==
    LET ChildrenComplete(r) ==
            IF Failed(r.W) \/ Len(r.val) = 0 THEN r.W
            ELSE Log(r.W, [Ev("childrenCompleteCallback", node) EXCEPT
                              !.nodes = r.val, !.data = dataForIn(r.W, r.val[1])])
        DescendantsComplete(r) ==
            IF Failed(r.W) \/ r.val = 0 THEN r.W
            ELSE Log(r.W, Ev("descendantsCompleteCallback", node))
    IN  CASE cb = "ccBinding" -> ChildrenComplete(childNodes(W, node))
          [] cb = "dcBinding" -> DescendantsComplete(firstChild(W, node))
          [] OTHER -> Log(W, [Ev("userCallback", node) EXCEPT !.key = cb])

\* eventSubscribable.notifySubscribers(node, event): the callbacks subscribed
\* to the event, in subscription order (the list as it was when it started).
RECURSIVE NotifySubscribers(_, _, _, _, _)
NotifySubscribers(W, node, event, subs, i) ==
    IF Failed(W) \/ i > Len(subs) THEN W
    ELSE NotifySubscribers(
            IF subs[i].event = event THEN RunCallback(W, node, subs[i].cb) ELSE W,
            node, event, subs, i + 1)

hasSubscriptionsForEvent(bindingInfo, event) ==
    \E i \in DOMAIN bindingInfo.subs : bindingInfo.subs[i].event = event

\* The first part of bindingEvent.notify (lines 271-279).  The log entry
\* holds what the record was when the notification began.
NotifyHead(W, node, event) ==
    IF Failed(W) \/ ~W.info[node].exists THEN W
    ELSE IF ~W.info[node].hasNotifiedEvents THEN Throw(W, Err("TypeError", node))
    ELSE LET bindingInfo == W.info[node]
             fires == event = EVENT_DESCENDENTS_COMPLETE
             W0 == IF fires /\ IsLive(W, bindingInfo.acAnc)
                   THEN [W EXCEPT !.info[bindingInfo.acAnc.node].acUnfired = @ \ {node}]
                   ELSE W
             W1 == [W0 EXCEPT !.info[node].notifiedEvents = @ \cup {event},
                              !.info[node].acFired = IF fires /\ @ < 2 THEN @ + 1 ELSE @]
             W2 == Log(W1, [Ev("notify", node) EXCEPT
                              !.key = event,
                              !.ccNotified = EVENT_CHILDREN_COMPLETE \in bindingInfo.notifiedEvents,
                              !.ccFlag = bindingInfo.acCC,
                              !.outstanding = Len(bindingInfo.acDesc),
                              !.fired = bindingInfo.acFired,
                              !.registered = bindingInfo.acRegistered,
                              !.unfired = bindingInfo.acUnfired,
                              !.disposed = bindingInfo.acDisposed])
         IN  IF bindingInfo.hasEventSubscribable
             THEN NotifySubscribers(W2, node, event, bindingInfo.subs, 1)
             ELSE W2

RECURSIVE completeChildren(_, _)
RECURSIVE descendantComplete(_, _, _)

\* AsyncCompleteContext.notifyAncestor (lines 223-228) of the context that
\* `node` has or had; ancestor is its ancestorBindingInfo.
notifyAncestor(W, node, ancestor) ==
    IF Failed(W) \/ ~HasAsyncContext(W, ancestor) THEN W
    ELSE descendantComplete(W, ancestor.node, node)

\* A descendantComplete that takes every descendant off the list.
descendantCompleteClearsList(W, self, node) ==
    LET W1 == [W EXCEPT !.info[self].acDesc = <<>>]
    IN  IF W1.info[self].acCC THEN completeChildren(W1, self) ELSE W1

\* AsyncCompleteContext.descendantComplete (lines 230-241) on the context of `self`.
descendantComplete(W, self, node) ==
    LET descendants == W.info[self].acDesc
        index == IndexOf(descendants, node)
        W1 == IF index >= 1
              THEN [W EXCEPT !.info[self].acDesc = RemoveAt(descendants, index)]
              ELSE W
    IN  IF Len(W1.info[self].acDesc) = 0 /\ W1.info[self].acCC
        THEN completeChildren(W1, self)
        ELSE W1

\* A completeChildren that does not look at the list of descendants.
completeChildrenUnchecked(W, self) ==
    IF Failed(W) THEN W
    ELSE LET W1 == [W EXCEPT !.info[self].acCC = TRUE] IN
         IF W1.info[self].ac = "active"
         THEN LET W2 == [W1 EXCEPT !.info[self].ac = "null", !.info[self].disposeCb = FALSE]
                  W3 == NotifyHead(W2, self, EVENT_DESCENDENTS_COMPLETE)
              IN  notifyAncestor(W3, self, W1.info[self].acAnc)
         ELSE W1

\* AsyncCompleteContext.completeChildren (lines 243-251) on the context of `self`.
completeChildren(W, self) ==
    IF Failed(W) THEN W
    ELSE LET W1 == [W EXCEPT !.info[self].acCC = TRUE] IN
         IF W1.info[self].ac = "active" /\ Len(W1.info[self].acDesc) = 0
         THEN LET W2 == [W1 EXCEPT !.info[self].ac = "null", !.info[self].disposeCb = FALSE]
                  W3 == NotifyHead(W2, self, EVENT_DESCENDENTS_COMPLETE)
              IN  notifyAncestor(W3, self, W1.info[self].acAnc)
         ELSE W1

\* A notify that takes a context that is over for one that never was.
notifyWithoutMemory(W, node, event) ==
    LET Notified(W1) ==
            IF Failed(W1) \/ ~W1.info[node].exists \/ event # EVENT_CHILDREN_COMPLETE THEN W1
            ELSE LET bindingInfo == W1.info[node] IN
                 IF bindingInfo.ac = "active" THEN completeChildren(W1, node)
                 ELSE IF bindingInfo.hasEventSubscribable
                         /\ hasSubscriptionsForEvent(bindingInfo, EVENT_DESCENDENTS_COMPLETE)
                 THEN Throw(W1, Err("DescendantsCompleteNotSupported", node))
                 ELSE W1
    IN  Notified(NotifyHead(W, node, event))

\* bindingEvent.notify (lines 270-290).
notify(W, node, event) ==
    LET Notified(W1) ==
            IF Failed(W1) \/ ~W1.info[node].exists \/ event # EVENT_CHILDREN_COMPLETE THEN W1
            ELSE LET bindingInfo == W1.info[node] IN
                 IF bindingInfo.ac = "active" THEN completeChildren(W1, node)
                 ELSE IF bindingInfo.ac = "undefined" /\ bindingInfo.hasEventSubscribable
                         /\ hasSubscriptionsForEvent(bindingInfo, EVENT_DESCENDENTS_COMPLETE)
                 THEN Throw(W1, Err("DescendantsCompleteNotSupported", node))
                 ELSE W1
    IN  Notified(NotifyHead(W, node, event))

\* bindingEvent.subscribe (lines 260-268); cb names the callback.
subscribe(W, node, event, cb, notifyImmediately) ==
    LET W1 == getOrSetDomData(W, node)
        W2 == [W1 EXCEPT !.info[node].hasEventSubscribable = TRUE]
        bindingInfo == W2.info[node]
        Subscribed(W3) ==
            IF Failed(W3) THEN W3
            ELSE [W3 EXCEPT !.info[node].subs = Append(@, [event |-> event, cb |-> cb])]
    IN  IF Failed(W) THEN W
        ELSE IF ~notifyImmediately THEN Subscribed(W2)
        ELSE IF ~bindingInfo.hasNotifiedEvents THEN Throw(W2, Err("TypeError", node))
        ELSE IF event \in bindingInfo.notifiedEvents
        THEN Subscribed(RunCallback(W2, node, cb))
        ELSE Subscribed(W2)

\* A constructor that registers the node with the ancestor and keeps no
\* link to it.
newAsyncCompleteContextUnlinked(W, node, ancestorBindingInfo) ==
    LET linked == HasAsyncContext(W, ancestorBindingInfo)
        W1 == [W EXCEPT !.info[node].acDesc = <<>>,
                        !.info[node].acCC = FALSE,
                        !.info[node].acFired = 0,
                        !.info[node].acRegistered = {},
                        !.info[node].acUnfired = {},
                        !.info[node].acDisposed = {},
                        !.info[node].disposeCb = (W.info[node].ac # "active") \/ @,
                        !.info[node].acAnc = NoRef]
        W2 == IF linked
              THEN [W1 EXCEPT !.info[ancestorBindingInfo.node].acDesc = Append(@, node),
                              !.info[ancestorBindingInfo.node].acRegistered = @ \cup {node},
                              !.info[ancestorBindingInfo.node].acUnfired = @ \cup {node},
                              !.info[ancestorBindingInfo.node].acDisposed = @ \ {node}]
              ELSE W1
    IN  [W2 EXCEPT !.info[node].ac = "active"]

\* new AsyncCompleteContext(node, bindingInfo, ancestorBindingInfo) (lines
\* 207-221), stored in bindingInfo.asyncContext by line 296.
newAsyncCompleteContext(W, node, ancestorBindingInfo) ==
    LET linked == HasAsyncContext(W, ancestorBindingInfo)
        W1 == [W EXCEPT !.info[node].acDesc = <<>>,
                        !.info[node].acCC = FALSE,
                        !.info[node].acFired = 0,
                        !.info[node].acRegistered = {},
                        !.info[node].acUnfired = {},
                        !.info[node].acDisposed = {},
                        !.info[node].disposeCb = (W.info[node].ac # "active") \/ @,
                        !.info[node].acAnc = IF linked THEN ancestorBindingInfo ELSE NoRef]
        W2 == IF linked
              THEN [W1 EXCEPT !.info[ancestorBindingInfo.node].acDesc = Append(@, node),
                              !.info[ancestorBindingInfo.node].acRegistered = @ \cup {node},
                              !.info[ancestorBindingInfo.node].acUnfired = @ \cup {node},
                              !.info[ancestorBindingInfo.node].acDisposed = @ \ {node}]
              ELSE W1
    IN  [W2 EXCEPT !.info[node].ac = "active"]

\* The names of the own properties of a bindingInfo object.
InfoPropNames(bindingInfo) ==
    (IF bindingInfo.alreadyBound THEN {"alreadyBound"} ELSE {})
    \cup (IF bindingInfo.context.isCtx THEN {"context"} ELSE {})
    \cup (IF bindingInfo.hasNotifiedEvents THEN {"notifiedEvents"} ELSE {})
    \cup (IF bindingInfo.hasEventSubscribable THEN {"eventSubscribable"} ELSE {})
    \cup (IF bindingInfo.ac # "undefined" THEN {"asyncContext"} ELSE {})

\* bindingContext.extend(ctx => ctx[CONTEXT_ANCESTOR_BINDING_INFO] = bindingInfo)
\* on a context without a subscribable (lines 184-188 and 304).  The arrow
\* function returns bindingInfo, whose own properties Object.assign copies.
extendWithBindingInfo(bindingContext, ref, bindingInfo) ==
    StaticContext(bindingContext,
        CtxArgs(Accessor("inherit", Undefined, ""), "", "anc", NoProps, NoInner,
                ref, InfoPropNames(bindingInfo), FALSE, FALSE))

\* bindingEvent.startPossiblyAsyncContentBinding (lines 292-305): [W, val].
startPossiblyAsyncContentBinding(W, node, bindingContext) ==
    LET W1 == getOrSetDomData(W, node)
        Started(W2) ==
            IF bindingContext.anc = RefOf(W2, node) THEN [W |-> W2, val |-> bindingContext]
            ELSE [W |-> W2,
                  val |-> extendWithBindingInfo(bindingContext, RefOf(W2, node), W2.info[node])]
    IN  IF Failed(W) THEN [W |-> W, val |-> bindingContext]
        ELSE IF W1.info[node].ac # "active"
        THEN Started(newAsyncCompleteContext(W1, node, bindingContext.anc))
        ELSE Started(W1)

\* A dispose callback that tells the ancestor nothing.
asyncContextDisposeSilent(W, node) ==
    IF W.info[node].exists /\ W.info[node].ac = "active"
    THEN [W EXCEPT !.info[node].ac = "null"]
    ELSE W

\* _asyncContextDispose (lines 196-203).
asyncContextDispose(W, node) ==
    LET ancestor == W.info[node].acAnc
        W1 == IF IsLive(W, ancestor)
              THEN [W EXCEPT !.info[ancestor.node].acDisposed = @ \cup {node}]
              ELSE W
    IN  IF W.info[node].exists /\ W.info[node].ac = "active"
        THEN notifyAncestor([W1 EXCEPT !.info[node].ac = "null"], node, ancestor)
        ELSE W

\* The node is cleaned, as when it is removed from the document: its
\* dispose callbacks run (_asyncContextDispose is one while disposeCb
\* holds, lines 214 and 246), then its dom data is dropped.
cleanNode(W, node) ==
    LET Dropped(W1) ==
            IF Failed(W1) \/ ~W1.info[node].exists THEN W1
            ELSE [W1 EXCEPT !.info[node] = NoInfo, !.gen[node] = @ + 1]
    IN  Dropped(IF W.info[node].disposeCb THEN asyncContextDispose(W, node) ELSE W)

---------------------------------------------------------------------------
(* Virtual elements: the operations that change the document.  Every      *)
(* operator returns the world after the call.                              *)

\* The document with node n taken out of its parent's child list.
domDetach(W, n) ==
    [W EXCEPT !.kids = [p \in DOMAIN W.kids |->
                           SelectSeq(W.kids[p], LAMBDA x : x # n)]]

\* parent.insertBefore(node, ref), and parent.appendChild(node) for ref = 0:
\* the node leaves the place it had.  A null parent is a TypeError, a ref
\* that is no child of parent a NotFoundError.
domInsertBefore(W, parent, node, ref) ==
    LET W1 == domDetach(W, node)
        s == W1.kids[parent]
        i == IF ref = 0 THEN Len(s) + 1 ELSE IndexOf(s, ref)
    IN  IF Failed(W) THEN W
        ELSE IF parent = 0 THEN Throw(W, Err("TypeError", node))
        ELSE IF i = 0 THEN Throw(W, Err("NotFoundError", node))
        ELSE [W1 EXCEPT !.kids[parent] =
                 SubSeq(s, 1, i - 1) \o <<node>> \o SubSeq(s, i, Len(s))]

\* removeNode of utils.domNodeDisposal: the node is cleaned and leaves its
\* parent.
removeNode(W, node) ==
    LET Removed(W1) == IF Failed(W1) THEN W1 ELSE domDetach(W1, node)
    IN  Removed(cleanNode(W, node))

\* The loop of lines 93-95, and emptyDomNode, over the nodes of list.
RECURSIVE RemoveNodes(_, _)
RemoveNodes(W, list) ==
    IF Failed(W) \/ list = <<>> THEN W
    ELSE RemoveNodes(removeNode(W, Head(list)), Tail(list))

\* emptyNode
emptyNode(W, node) ==
    LET Emptied(r) == IF Failed(r.W) THEN r.W ELSE RemoveNodes(r.W, r.val)
    IN  Emptied(childNodes(W, node))

\* The loop of lines 105-107: every node of list goes before ref in the
\* parent of ref (ref = 0: endCommentNode is null).
RECURSIVE InsertNodesBefore(_, _, _)
InsertNodesBefore(W, list, ref) ==
    IF Failed(W) \/ list = <<>> THEN W
    ELSE IF ref = 0 THEN Throw(W, Err("TypeError", Head(list)))
    ELSE InsertNodesBefore(domInsertBefore(W, parentNode(W, ref), Head(list), ref),
                           Tail(list), ref)

\* setDomNodeChildren.  For an element, utilsSetDomNodeChildren empties it
\* and appends the nodes.
RECURSIVE AppendNodes(_, _, _)
AppendNodes(W, parent, list) ==
    IF Failed(W) \/ list = <<>> THEN W
    ELSE AppendNodes(domInsertBefore(W, parent, Head(list), 0), parent, Tail(list))

setDomNodeChildren(W, node, list) ==
    LET Filled(W1) ==
            IF Failed(W1) THEN W1
            ELSE IF ~isStartComment(node) THEN AppendNodes(W1, node, list)
            ELSE InsertNodesBefore(W1, list, domNextSibling(W1, node))
    IN  Filled(emptyNode(W, node))

\* A prepend that puts the node before the start comment.
prependBeforeStart(W, containerNode, nodeToPrepend) ==
    IF isStartComment(containerNode)
    THEN domInsertBefore(W, parentNode(W, containerNode), nodeToPrepend, containerNode)
    ELSE domInsertBefore(W, containerNode, nodeToPrepend, domFirstChild(W, containerNode))

\* prepend
prepend(W, containerNode, nodeToPrepend) ==
    LET insertBeforeNode == IF isStartComment(containerNode)
                            THEN domNextSibling(W, containerNode)
                            ELSE domFirstChild(W, containerNode)
        container == IF isStartComment(containerNode)
                     THEN parentNode(W, containerNode)
                     ELSE containerNode
    IN  IF insertBeforeNode = 0 \/ nodeToPrepend # insertBeforeNode
        THEN domInsertBefore(W, container, nodeToPrepend, insertBeforeNode)
        ELSE W

\* insertAfter; insertAfterNode = 0 is the call without one.
insertAfter(W, containerNode, nodeToInsert, insertAfterNode) ==
    LET insertBeforeNode == domNextSibling(W, insertAfterNode)
        container == IF isStartComment(containerNode)
                     THEN parentNode(W, containerNode)
                     ELSE containerNode
    IN  IF insertAfterNode = 0 THEN prepend(W, containerNode, nodeToInsert)
        ELSE IF insertBeforeNode = 0 \/ nodeToInsert # insertBeforeNode
        THEN domInsertBefore(W, container, nodeToInsert, insertBeforeNode)
        ELSE W

---------------------------------------------------------------------------
(* The binding provider (bindingProviderInstance).  dom.decl[n] is the     *)
(* binding declaration of node n: has = FALSE when it declares none, else  *)
(* keys are the declared binding names in the order the provider yields.   *)

NoDecl == [has |-> FALSE, keys |-> <<>>]
Decl(keys) == [has |-> TRUE, keys |-> keys]

nodeHasBindings(node) ==
    CASE nodeType(node) = 1 -> dom.decl[node].has
      [] nodeType(node) = 8 -> isStartComment(node)
      [] OTHER -> FALSE

getBindingAccessors(node) == dom.decl[node]

\* normaliseVirtualElementDomStructure: it rearranges the children of ul and
\* ol elements only, and the documents of the model hold none.
normaliseVirtualElementDomStructure(W, node) == W

---------------------------------------------------------------------------
(* _applyBindingsToNodeInternal.                                           *)

\* sourceBindings: given = FALSE is null or undefined, else the keys of
\* the map of accessors.
NoSource == [given |-> FALSE, has |-> FALSE, keys |-> <<>>]
Source(keys) == [given |-> TRUE, has |-> TRUE, keys |-> keys]

\* An init whose claim replaces an earlier one instead of failing.
RunInitLastClaimWins(W, node, bindingKey, ctl, contextToExtend) ==
    LET handler == getBindingHandler(bindingKey)
        e == [Ev("init", node) EXCEPT !.key = bindingKey, !.ctx = contextToExtend,
                                      !.data = contextToExtend.data]
    IN  CASE handler.init = "none" -> [W |-> W, ctl |-> ctl]
          [] handler.init = "plain" -> [W |-> Log(W, e), ctl |-> ctl]
          [] handler.init = "controls" ->
                [W |-> Log(W, [e EXCEPT !.controls = TRUE]), ctl |-> bindingKey]
          [] OTHER -> [W |-> Throw(Log(W, e), [Err("Handler", node) EXCEPT !.binding = bindingKey]),
                       ctl |-> ctl]

\* What the init of a handler does to the document when it is one that
\* takes its node out of its place: "removes" is
\* node.parentNode.removeChild(node), "movesForward" puts the node after
\* its next sibling, "movesFirst" before the first child of its parent.
InitChangesDocument == {"removes", "movesForward", "movesFirst"}

HandlerMovesNode(W, node, init) ==
    LET parent == parentNode(W, node)
        next == domNextSibling(W, node)
    IN  CASE parent = 0 -> W
          [] init = "removes" -> domDetach(W, node)
          [] init = "movesForward" ->
                IF next = 0 THEN W
                ELSE domInsertBefore(W, parent, node, domNextSibling(W, next))
          [] init = "movesFirst" ->
                IF domFirstChild(W, parent) = node THEN W
                ELSE domInsertBefore(W, parent, node, domFirstChild(W, parent))
          [] OTHER -> W

\* An init whose exception is swallowed.
RunInitSwallows(W, node, bindingKey, ctl, contextToExtend) ==
    LET handler == getBindingHandler(bindingKey)
        e == [Ev("init", node) EXCEPT !.key = bindingKey, !.ctx = contextToExtend,
                                      !.data = contextToExtend.data]
    IN  CASE handler.init = "none" -> [W |-> W, ctl |-> ctl]
          [] handler.init = "controls" ->
                IF ctl # ""
                THEN [W |-> Throw(Log(W, [e EXCEPT !.controls = TRUE]),
                                  [Err("Conflict", node) EXCEPT
                                      !.first = ctl, !.second = bindingKey,
                                      !.binding = bindingKey]),
                      ctl |-> ctl]
                ELSE [W |-> Log(W, [e EXCEPT !.controls = TRUE]), ctl |-> bindingKey]
          [] handler.init \in InitChangesDocument ->
                [W |-> HandlerMovesNode(Log(W, e), node, handler.init), ctl |-> ctl]
          [] OTHER -> [W |-> Log(W, e), ctl |-> ctl]

\* The call of init (lines 537-549).  ctl is
\* bindingHandlerThatControlsDescendantBindings ("": undefined).  An
\* exception leaves through the catch of lines 559-562, which adds the
\* binding's name to the message.  Returns [W, ctl].
RunInit(W, node, bindingKey, ctl, contextToExtend) ==
    LET handler == getBindingHandler(bindingKey)
        e == [Ev("init", node) EXCEPT !.key = bindingKey, !.ctx = contextToExtend,
                                      !.data = contextToExtend.data]
    IN  CASE handler.init = "none" -> [W |-> W, ctl |-> ctl]
          [] handler.init = "plain" -> [W |-> Log(W, e), ctl |-> ctl]
          [] handler.init = "controls" ->
                IF ctl # ""
                THEN [W |-> Throw(Log(W, [e EXCEPT !.controls = TRUE]),
                                  [Err("Conflict", node) EXCEPT
                                      !.first = ctl, !.second = bindingKey,
                                      !.binding = bindingKey]),
                      ctl |-> ctl]
                ELSE [W |-> Log(W, [e EXCEPT !.controls = TRUE]), ctl |-> bindingKey]
          [] handler.init \in InitChangesDocument ->
                [W |-> HandlerMovesNode(Log(W, e), node, handler.init), ctl |-> ctl]
          [] OTHER -> [W |-> Throw(Log(W, e), [Err("Handler", node) EXCEPT !.binding = bindingKey]),
                       ctl |-> ctl]

\* An update called as init is, outside any computed.
RunUpdateUntracked(W, node, bindingKey, contextToExtend) ==
    LET handler == getBindingHandler(bindingKey)
        u == [Ev("update", node) EXCEPT !.key = bindingKey, !.ctx = contextToExtend,
                                        !.data = contextToExtend.data]
    IN  IF Failed(W) \/ handler.update = "none" THEN W
        ELSE IF handler.update = "plain" THEN Log(W, u)
        ELSE Throw(Log(W, u), [Err("Handler", node) EXCEPT !.binding = bindingKey])

\* The first run of update in its computed (lines 552-558); tracked marks
\* a function run by dependentObservable, which init (run under
\* ignoreDependencyDetection, line 538) is not.
RunUpdate(W, node, bindingKey, contextToExtend) ==
    LET handler == getBindingHandler(bindingKey)
        u == [Ev("update", node) EXCEPT !.key = bindingKey, !.ctx = contextToExtend,
                                        !.data = contextToExtend.data, !.tracked = TRUE]
    IN  IF Failed(W) \/ handler.update = "none" THEN W
        ELSE IF handler.update = "plain" THEN Log(W, u)
        ELSE Throw(Log(W, u), [Err("Handler", node) EXCEPT !.binding = bindingKey])

\* The forEach over orderedBindings (lines 524-563), from position i.
\* Returns [W, ctl].
RECURSIVE RunBindings(_, _, _, _, _, _)
RunBindings(W, node, ordered, i, ctl, contextToExtend) ==
    LET bindingKey == ordered[i]
        AfterInit(r) ==
            RunBindings(RunUpdate(r.W, node, bindingKey, contextToExtend),
                        node, ordered, i + 1, r.ctl, contextToExtend)
    IN  IF Failed(W) \/ i > Len(ordered) THEN [W |-> W, ctl |-> ctl]
        ELSE IF nodeType(node) = 8 /\ ~getBindingHandler(bindingKey).allowedVirtual
        THEN [W |-> Throw(W, [Err("VirtualNotAllowed", node) EXCEPT !.binding = bindingKey]),
              ctl |-> ctl]
        ELSE AfterInit(RunInit(W, node, bindingKey, ctl, contextToExtend))

\* Lines 482-564: the part run when there are bindings.  Returns [W, ctl, ctx].
ApplyBindingKeys(W, node, keys, bindingContext) ==
    LET hasDC == EVENT_DESCENDENTS_COMPLETE \in Range(keys)
        WithContext(ran, contextToExtend) ==
            [W |-> ran.W, ctl |-> ran.ctl, ctx |-> contextToExtend]
        \* lines 521-563
        Run(W2, contextToExtend, sorted) ==
            WithContext(
                IF sorted.err
                THEN [W |-> Throw(W2, [Err("CyclicDependency", node) EXCEPT
                                          !.stack = sorted.stack]),
                      ctl |-> ""]
                ELSE RunBindings(W2, node, sorted.result, 1, "", contextToExtend),
                contextToExtend)
        \* lines 510-518
        Started(started) ==
            Run(IF hasDC
                THEN subscribe(started.W, node, EVENT_DESCENDENTS_COMPLETE, "dcBinding", FALSE)
                ELSE started.W,
                started.val, topologicalSortBindings(keys))
        Subscribed(W1) ==
            Started(IF hasDC THEN startPossiblyAsyncContentBinding(W1, node, bindingContext)
                    ELSE [W |-> W1, val |-> bindingContext])
    IN  \* lines 498-508
        Subscribed(IF EVENT_CHILDREN_COMPLETE \in Range(keys)
                   THEN subscribe(W, node, EVENT_CHILDREN_COMPLETE, "ccBinding", FALSE)
                   ELSE W)

\* A guard that lets implicit bindings be applied again.
MarkBoundUnchecked(W1, node, sourceBindings) ==
    IF sourceBindings.given THEN W1
    ELSE [W1 EXCEPT !.info[node].alreadyBound = TRUE]

\* Lines 427-434: implicit bindings are applied to a node once.
MarkBound(W1, node, sourceBindings) ==
    IF sourceBindings.given THEN W1
    ELSE IF W1.info[node].alreadyBound THEN Throw(W1, Err("DoubleBinding", node))
    ELSE [W1 EXCEPT !.info[node].alreadyBound = TRUE]

\* A record that takes the context of every application.
StoreContextAlways(W2, node, alreadyBound, bindingContext) ==
    [W2 EXCEPT !.info[node].context = bindingContext]

\* Lines 435-437: the record keeps the context of the application, unless
\* the node was implicitly bound before.
StoreContext(W2, node, alreadyBound, bindingContext) ==
    [W2 EXCEPT !.info[node].context = IF alreadyBound THEN @ ELSE bindingContext]

\* A result that sends the driver into the children whatever init returned.
BindingResultAlwaysDescend(r) ==
    [shouldBindDescendants |-> TRUE, bindingContextForDescendants |-> r.ctx]

\* Lines 566-570: the value returned, from r = [W, ctl, ctx].
BindingResult(r) ==
    [shouldBindDescendants |-> r.ctl = "",
     bindingContextForDescendants |-> IF r.ctl = "" THEN r.ctx ELSE NoCtx]

\* _applyBindingsToNodeInternal (lines 424-571).  Returns [W, val] with
\* val = [shouldBindDescendants, bindingContextForDescendants]; the context
\* is NoCtx where the source yields false.
applyBindingsToNodeInternal(W, node, sourceBindings, bindingContext) ==
    LET bindings == IF sourceBindings.given THEN sourceBindings ELSE getBindingAccessors(node)
        none == [shouldBindDescendants |-> FALSE, bindingContextForDescendants |-> NoCtx]
        Applied(r) ==
            IF Failed(r.W) THEN [W |-> r.W, val |-> none]
            ELSE [W |-> r.W, val |-> BindingResult(r)]
        \* lines 438-564
        Bind(W3) ==
            LET W4 == IF ~W3.info[node].hasNotifiedEvents
                      THEN [W3 EXCEPT !.info[node].hasNotifiedEvents = TRUE,
                                      !.info[node].notifiedEvents = {}]
                      ELSE W3
                W5 == Log(W4, [Ev("bind", node) EXCEPT
                                  !.key = IF sourceBindings.given THEN "explicit"
                                                                  ELSE "implicit",
                                  !.ctx = bindingContext])
            IN  Applied(IF bindings.has
                        THEN ApplyBindingKeys(W5, node, bindings.keys, bindingContext)
                        ELSE [W |-> W5, ctl |-> "", ctx |-> bindingContext])
        Marked(W2, alreadyBound) ==
            IF Failed(W2) THEN [W |-> W2, val |-> none]
            ELSE Bind(StoreContext(W2, node, alreadyBound, bindingContext))
        \* lines 426-434
        Got(W1) == Marked(MarkBound(W1, node, sourceBindings), W1.info[node].alreadyBound)
    IN  IF Failed(W) THEN [W |-> W, val |-> none]
        ELSE Got(getOrSetDomData(W, node))

---------------------------------------------------------------------------
(* The tree walk.  The provider of the model has no preprocessNode, so the *)
(* preprocessing loop (lines 348-355) is skipped.                          *)

RECURSIVE applyBindingsToDescendantsInternal(_, _, _)
RECURSIVE applyBindingsToNodeAndDescendantsInternal(_, _, _)
RECURSIVE BindSiblings(_, _, _)

\* A loop that looks for the next child after it has bound the current one.
BindSiblingsLate(W, bindingContext, currentChild) ==
    LET Queued(nextInQueue) ==
            IF Failed(nextInQueue.W) THEN nextInQueue.W
            ELSE BindSiblings(nextInQueue.W, bindingContext, nextInQueue.val)
        Bound(W1) ==
            IF Failed(W1) THEN W1 ELSE Queued(nextSibling(W1, currentChild))
    IN  IF Failed(W) \/ currentChild = 0 THEN W
        ELSE Bound(applyBindingsToNodeAndDescendantsInternal(W, bindingContext, currentChild))

\* The while loop of lines 357-361 from currentChild on.
BindSiblings(W, bindingContext, currentChild) ==
    LET Queued(nextInQueue) ==
            IF Failed(nextInQueue.W) THEN nextInQueue.W
            ELSE BindSiblings(
                    applyBindingsToNodeAndDescendantsInternal(nextInQueue.W, bindingContext,
                                                              currentChild),
                    bindingContext, nextInQueue.val)
    IN  IF Failed(W) \/ currentChild = 0 THEN W
        ELSE Queued(nextSibling(W, currentChild))

\* A driver that notifies childrenComplete before it binds the children.
applyBindingsToDescendantsNotifyFirst(W, bindingContext, elementOrVirtualElement) ==
    LET Queued(nextInQueue) ==
            BindSiblings(nextInQueue.W, bindingContext, nextInQueue.val)
        Notified(W1) ==
            IF Failed(W1) THEN W1 ELSE Queued(firstChild(W1, elementOrVirtualElement))
    IN  IF Failed(W) THEN W
        ELSE Notified(notify(W, elementOrVirtualElement, EVENT_CHILDREN_COMPLETE))

\* _applyBindingsToDescendantsInternal (lines 338-364).
applyBindingsToDescendantsInternal(W, bindingContext, elementOrVirtualElement) ==
    LET Bound(W1) ==
            IF Failed(W1) THEN W1
            ELSE notify(W1, elementOrVirtualElement, EVENT_CHILDREN_COMPLETE)
        Queued(nextInQueue) ==
            Bound(BindSiblings(nextInQueue.W, bindingContext, nextInQueue.val))
    IN  IF Failed(W) THEN W
        ELSE Queued(firstChild(W, elementOrVirtualElement))

\* _applyBindingsToNodeAndDescendantsInternal (lines 366-384).
applyBindingsToNodeAndDescendantsInternal(W, bindingContext, nodeVerified) ==
    LET isElement == nodeType(nodeVerified) = 1
        shouldApplyBindings == isElement \/ nodeHasBindings(nodeVerified)
        Applied(applied) ==
            IF Failed(applied.W) THEN applied.W
            ELSE IF applied.val.bindingContextForDescendants.isCtx
                    /\ dom.kind[nodeVerified] \notin BINDING_DOES_NOT_RECURSE_INTO_ELEMENT_TYPES
            THEN applyBindingsToDescendantsInternal(
                    applied.W, applied.val.bindingContextForDescendants, nodeVerified)
            ELSE applied.W
        Normalised(W1) ==
            Applied(IF shouldApplyBindings
                    THEN applyBindingsToNodeInternal(W1, nodeVerified, NoSource, bindingContext)
                    ELSE [W |-> W1,
                          val |-> [shouldBindDescendants |-> TRUE,
                                   bindingContextForDescendants |-> bindingContext]])
    IN  IF Failed(W) THEN W
        ELSE Normalised(IF isElement
                        THEN normaliseVirtualElementDomStructure(W, nodeVerified)
                        ELSE W)

---------------------------------------------------------------------------
(* The exported operations, each on a world and returning the world after. *)

\* applyBindingAccessorsToNode (lines 580-586), given the context that
\* _getBindingContext made of its third argument.
applyBindingAccessorsToNode(W, node, bindings, context) ==
    LET W1 == IF nodeType(node) = 1 THEN normaliseVirtualElementDomStructure(W, node) ELSE W
    IN  applyBindingsToNodeInternal(W1, node, bindings, context).W

\* applyBindingsToDescendants (lines 593-597).
applyBindingsToDescendants(W, context, rootNode) ==
    IF nodeType(rootNode) \in {1, 8}
    THEN applyBindingsToDescendantsInternal(W, context, rootNode)
    ELSE W

\* applyBindings (lines 599-609) with a root node given.
applyBindings(W, context, rootNode) ==
    IF nodeType(rootNode) \notin {1, 8} THEN Throw(W, Err("BadRootNode", rootNode))
    ELSE applyBindingsToNodeAndDescendantsInternal(W, context, rootNode)

contextFor(node) == contextForIn(World, node)
dataFor(node) == dataForIn(World, node)

---------------------------------------------------------------------------
(* Actions: one call of an exported operation each.                        *)

Nodes == DOMAIN dom.kind

\* The most subscriptions a node's event channel holds in the model.
MaxSubs == 2

\* The binding applications to node n that a log records, in order: how
\* ("implicit" or "explicit") and with which context.
BindingsOf(log, n) ==
    LET IsBind(e) == e.ev = "bind" /\ e.node = n
        binds == SelectSeq(log, IsBind)
    IN  [i \in 1..Len(binds) |-> [how |-> binds[i].key, ctx |-> binds[i].ctx]]

\* The call leaves the world W behind; last records the call (n counts the
\* calls made so far) and bound gains what the call applied.
Finish(W, op, node, keys, ctx) ==
    /\ \A n \in Nodes : Len(W.info[n].subs) <= MaxSubs
    /\ info' = W.info
    /\ gen' = W.gen
    /\ tagged' = W.tagged
    /\ dom' = [dom EXCEPT !.kids = W.kids]
    /\ last' = [op |-> op, node |-> node, keys |-> keys, ctx |-> ctx,
                log |-> W.log, err |-> W.err, n |-> last.n + 1]
    /\ bound' = [n \in Nodes |-> bound[n] \o BindingsOf(W.log, n)]
    /\ UNCHANGED <<handlers, heap, store, computeds>>

\* The same for a call in the completion specification, which counts no
\* calls and keeps no history of the bindings applied.
FinishEvent(W, op, node, keys, ctx) ==
    /\ \A n \in Nodes : Len(W.info[n].subs) <= MaxSubs
    /\ info' = W.info
    /\ gen' = W.gen
    /\ tagged' = W.tagged
    /\ dom' = [dom EXCEPT !.kids = W.kids]
    /\ last' = [op |-> op, node |-> node, keys |-> keys, ctx |-> ctx,
                log |-> W.log, err |-> W.err, n |-> 0]
    /\ UNCHANGED <<handlers, bound, heap, store, computeds>>

NoOp == [op |-> "none", node |-> 0, keys |-> <<>>, ctx |-> NoCtx, log |-> <<>>, err |-> NoErr,
         n |-> 0]

\* The contexts a caller can hold: a new root context for a view model
\* (_getBindingContext, lines 573-578), a context a node was bound with,
\* or one a handler of the last call was given.
CallerContexts ==
    {RootContext(vm) : vm \in ViewModels}
    \cup ({contextFor(n) : n \in Nodes} \ {NoCtx})
    \cup ({last.log[i].ctx : i \in DOMAIN last.log} \ {NoCtx})

\* applyBindingAccessorsToNode(node, bindings, viewModelOrBindingContext)
\* with a map of accessors whose keys are drawn from keySeqs.
ApplyBindingsToNode(keySeqs, contexts) ==
    \E node \in Nodes, keys \in keySeqs, context \in contexts :
        Finish(applyBindingAccessorsToNode(World, node, Source(keys), context),
               "applyBindingsToNode", node, keys, context)

\* applyBindings(viewModelOrBindingContext, rootNode)
ApplyBindings(contexts) ==
    \E rootNode \in Nodes, context \in contexts :
        Finish(applyBindings(World, context, rootNode), "applyBindings", rootNode, <<>>, context)

\* applyBindingsToDescendants(viewModelOrBindingContext, rootNode)
ApplyBindingsToDescendants(contexts) ==
    \E rootNode \in Nodes, context \in contexts :
        Finish(applyBindingsToDescendants(World, context, rootNode),
               "applyBindingsToDescendants", rootNode, <<>>, context)

---------------------------------------------------------------------------
(* The sorting specification: one element, every registry of handlers for  *)
(* the keys a, b, c with `after` lists of up to MaxAfter names and an init *)
(* that may claim the descendants, and every map of bindings applied to    *)
(* the element.                                                            *)

SortRegistryEntries ==
    {NoHandler}
    \cup {Handler(<<>>, FALSE, i, "plain", TRUE) : i \in {"plain", "controls"}}
    \cup {Handler(after, TRUE, i, "plain", TRUE) :
            after \in SeqsUpTo(HandlerKeys, MaxAfter), i \in {"plain", "controls"}}

OneElement == [kind |-> <<"div">>, kids |-> << <<>> >>, decl |-> <<NoDecl>>]

InitSort ==
    /\ handlers \in {h \in [Keys -> SortRegistryEntries] :
                        /\ h[EVENT_CHILDREN_COMPLETE] = NoHandler
                        /\ h[EVENT_DESCENDENTS_COMPLETE] = NoHandler}
    /\ dom = OneElement
    /\ info = [n \in DOMAIN OneElement.kind |-> NoInfo]
    /\ gen = [n \in DOMAIN OneElement.kind |-> 0]
    /\ tagged = {}
    /\ last = NoOp
    /\ bound = [n \in DOMAIN OneElement.kind |-> <<>>]
    /\ heap = <<>>
    /\ computeds = <<>>
    /\ store = [o \in Observables |-> "vm1"]

NextSort ==
    /\ last.op = "none"
    /\ ApplyBindingsToNode(SeqsUpTo(HandlerKeys, Cardinality(HandlerKeys)), {RootContext("vm1")})

SpecSort == InitSort /\ [][NextSort]_vars

---------------------------------------------------------------------------
(* Properties of the order of the bindings of one node.                    *)

\* The positions in a log at which a handler of key k ran on node n.
Runs(log, n, k) == {i \in DOMAIN log : log[i].ev \in {"init", "update"}
                                        /\ log[i].node = n /\ log[i].key = k}

\* d is named in the `after` list of k and both are bindings of the node.
DependsOn(present, k, d) ==
    /\ k \in present /\ d \in present
    /\ handlers[k].exists /\ handlers[k].hasAfter
    /\ d \in Range(handlers[k].after)

RECURSIVE ReachableFrom(_, _)
ReachableFrom(present, S) ==
    LET T == S \cup {d \in present : \E k \in S : DependsOn(present, k, d)} IN
    IF T = S THEN S ELSE ReachableFrom(present, T)

HasCycle(present) ==
    \E k \in present : \E d \in present :
        DependsOn(present, k, d) /\ k \in ReachableFrom(present, {d})

\* C1: when the `after` declarations of the bindings applied to a node are
\* acyclic, the application does not fail for a cyclic dependency, every
\* handler that runs does so after all runs of each binding of its `after`
\* list that is present (and registered), and every registered binding
\* runs unless the application failed; so a, b after a, c after b run as
\* a, b, c in whatever order the map declares them.
C1_AfterOrderRespected ==
    last.op = "applyBindingsToNode" =>
        LET present == Range(last.keys)
            n == last.node
        IN  ~HasCycle(present) =>
                /\ last.err.type # "CyclicDependency"
                /\ \A k \in present :
                      Runs(last.log, n, k) # {} =>
                          \A d \in present :
                              DependsOn(present, k, d) /\ handlers[d].exists =>
                                  /\ Runs(last.log, n, d) # {}
                                  /\ \A i \in Runs(last.log, n, d), j \in Runs(last.log, n, k) : i < j
                /\ last.err.type = "none" =>
                      \A k \in present : handlers[k].exists => Runs(last.log, n, k) # {}

IsChainRegistry ==
    /\ handlers["a"].exists /\ ~handlers["a"].hasAfter
    /\ handlers["b"].exists /\ handlers["b"].after = <<"a">>
    /\ handlers["c"].exists /\ handlers["c"].after = <<"b">>

C1_Witness ==
    /\ last.op = "applyBindingsToNode"
    /\ IsChainRegistry
    /\ last.keys = <<"c", "a", "b">>
    /\ last.err.type = "none"
    /\ \A i \in Runs(last.log, 1, "a"), j \in Runs(last.log, 1, "b"),
          k \in Runs(last.log, 1, "c") : i < j /\ j < k
    /\ Runs(last.log, 1, "c") # {}

\* C2: when the `after` declarations of the bindings present on a node form
\* a cycle, applying them fails with the cyclic-dependency error, and no
\* init or update of any handler has run on the node.
C2_CycleFailsBeforeHandlers ==
    last.op = "applyBindingsToNode" /\ HasCycle(Range(last.keys)) =>
        /\ last.err.type = "CyclicDependency"
        /\ last.err.node = last.node
        /\ \A i \in DOMAIN last.log : last.log[i].ev \notin {"init", "update"}

C2_Witness ==
    /\ last.op = "applyBindingsToNode"
    /\ last.keys = <<"c", "a", "b">>
    /\ handlers["a"].after = <<"b">> /\ handlers["b"].after = <<"a">>
    /\ handlers["c"].exists /\ ~handlers["c"].hasAfter
    /\ last.err.type = "CyclicDependency"

\* C4: when two inits run on one node in one application both return
\* controlsDescendantBindings, the application fails with the conflict
\* error, which names the first claimant and the second.
C4_ConflictNamesBoth ==
    \A i, j \in DOMAIN last.log :
        /\ i < j
        /\ last.log[i].ev = "init" /\ last.log[i].controls
        /\ last.log[j].ev = "init" /\ last.log[j].controls
        /\ last.log[i].node = last.log[j].node
        /\ \A m \in i..j : last.log[m].ev # "bind"
        => /\ last.err.type = "Conflict"
           /\ last.err.node = last.log[i].node
           /\ last.err.first = last.log[i].key
           /\ last.err.second = last.log[j].key
           /\ last.err.binding = last.log[j].key
           /\ j = Len(last.log)

C4_Witness ==
    /\ last.op = "applyBindingsToNode"
    /\ last.keys = <<"a", "b", "c">>
    /\ handlers["a"].init = "controls" /\ handlers["a"].after = <<"b">>
    /\ handlers["b"].init = "controls"
    /\ handlers["c"].init = "plain"
    /\ last.err.type = "Conflict" /\ last.err.first = "b" /\ last.err.second = "a"

---------------------------------------------------------------------------
(* The traversal specification.  The document is                           *)
(*                                                                         *)
(*     1 <div>                                                             *)
(*     2   <X>  3 <div data-bind="a"/>  </X>     X: any element kind       *)
(*     4   <!-- ko ... -->                                                 *)
(*     5     <div data-bind="a"/>                                          *)
(*     6   <!-- /ko -->                                                    *)
(*     7   text                                                            *)
(*                                                                         *)
(* with every choice of X and of the declarations of nodes 2 and 4.  The   *)
(* host makes up to MaxCalls calls of the exported operations, on any node *)
(* and with any context it can hold.                                       *)

MaxCalls == 2

Registry ==
    [k \in Keys |->
        CASE k = "a" -> Handler(<<>>, FALSE, "plain", "plain", TRUE)
          [] k = "b" -> Handler(<<>>, FALSE, "controls", "plain", TRUE)
          [] OTHER -> NoHandler]

Declarations ==
    {NoDecl, Decl(<<"a">>), Decl(<<"b">>), Decl(<<"a", EVENT_DESCENDENTS_COMPLETE>>)}

Document(X, d2, d4) ==
    [kind |-> <<"div", X, "div", "ko", "div", "/ko", "text">>,
     kids |-> << <<2, 4, 5, 6, 7>>, <<3>>, <<>>, <<>>, <<>>, <<>>, <<>> >>,
     decl |-> <<NoDecl, d2, Decl(<<"a">>), d4, Decl(<<"a">>), NoDecl, NoDecl>>]

Init ==
    /\ handlers = Registry
    /\ \E X \in ElementKinds, d2 \in Declarations, d4 \in Declarations \ {NoDecl} :
          dom = Document(X, d2, d4)
    /\ info = [n \in 1..7 |-> NoInfo]
    /\ gen = [n \in 1..7 |-> 0]
    /\ tagged = {}
    /\ last = NoOp
    /\ bound = [n \in 1..7 |-> <<>>]
    /\ heap = <<>>
    /\ computeds = <<>>
    /\ store = [o \in Observables |-> "vm1"]

\* The maps of accessors the host applies explicitly.
ExplicitBindings == {<<"a">>, <<"b">>}

CallApplyBindings == last.n < MaxCalls /\ ApplyBindings(CallerContexts)

CallApplyBindingsToDescendants == last.n < MaxCalls /\ ApplyBindingsToDescendants(CallerContexts)

CallApplyBindingsToNode ==
    last.n < MaxCalls /\ ApplyBindingsToNode(ExplicitBindings, CallerContexts)

Next ==
    \/ CallApplyBindings
    \/ CallApplyBindingsToDescendants
    \/ CallApplyBindingsToNode

Spec == Init /\ [][Next]_vars

---------------------------------------------------------------------------
(* Properties of the traversal.                                            *)

ImplicitlyBound(n) == \E i \in DOMAIN bound[n] : bound[n][i].how = "implicit"

\* The driver applies bindings to elements and to nodes that have bindings.
Bindable(n) == nodeType(n) = 1 \/ nodeHasBindings(n)

\* No node has gone through two implicit applications, and no explicit
\* application has failed as a double binding.
NoDoubleBinding ==
    /\ \A n \in Nodes :
          Cardinality({i \in DOMAIN bound[n] : bound[n][i].how = "implicit"}) <= 1
    /\ last.op = "applyBindingsToNode" => last.err.type # "DoubleBinding"

\* A step that applies implicit bindings to a node implicitly bound before
\* fails with the double binding error on that node and binds nothing; a
\* double binding error is raised for no other reason.
RebindStep ==
    /\ \A n \in Nodes :
          ImplicitlyBound(n) /\ Bindable(n)
          /\ last'.op = "applyBindings" /\ last'.node = n
          => /\ last'.err.type = "DoubleBinding"
             /\ last'.err.node = n
             /\ bound' = bound
    /\ last'.err.type = "DoubleBinding"
          => /\ last'.op # "applyBindingsToNode"
             /\ ImplicitlyBound(last'.err.node)

\* C3: applying implicit bindings to a node that was implicitly bound before
\* fails with DoubleBindingError, also on an element without declarations;
\* applying an explicit map of bindings never fails for this reason, before
\* or after an implicit application and however often it is repeated.
C3_ImplicitRebindFails == NoDoubleBinding /\ [][NoDoubleBinding' /\ RebindStep]_vars

\* An element without declarations was implicitly bound, and the last call
\* applied implicit bindings to it again and failed.
C3_Witness ==
    /\ last.op = "applyBindings"
    /\ nodeType(last.node) = 1 /\ ~dom.decl[last.node].has
    /\ ImplicitlyBound(last.node)
    /\ last.err.type = "DoubleBinding" /\ last.err.node = last.node

\* The nodes at marker depth 0 of the sibling sequence s from position i
\* on, up to the end marker that closes depth 0.
RECURSIVE TopLevelNodes(_, _, _)
TopLevelNodes(s, i, depth) ==
    IF i > Len(s) THEN <<>>
    ELSE IF isEndComment(s[i])
    THEN IF depth = 0 THEN <<>> ELSE TopLevelNodes(s, i + 1, depth - 1)
    ELSE (IF depth = 0 THEN <<s[i]>> ELSE <<>>)
         \o TopLevelNodes(s, i + 1, IF isStartComment(s[i]) THEN depth + 1 ELSE depth)

\* The children of an element or of a virtual element.
ChildrenOf(n) ==
    IF isStartComment(n)
    THEN LET p == CHOOSE q \in Nodes : n \in Range(dom.kids[q])
         IN  TopLevelNodes(dom.kids[p], IndexOf(dom.kids[p], n) + 1, 0)
    ELSE TopLevelNodes(dom.kids[n], 1, 0)

BoundIn(log, n) == \E j \in DOMAIN log : log[j].ev = "bind" /\ log[j].node = n

\* The handlers of node n that claimed its descendants in a log.
ClaimsIn(log, n) ==
    {log[j].key : j \in {k \in DOMAIN log : /\ log[k].ev = "init" /\ log[k].node = n
                                            /\ log[k].controls}}

\* The context the children of n are to be bound with when n was bound
\* with ctx: ctx itself, or ctx extended with the reference to n's record
\* when n asked for descendantsComplete.
SameButAncestor(c, ctx, n) ==
    [c EXCEPT !.infoProps = {}] = [ctx EXCEPT !.infoProps = {}, !.anc = [node |-> n, gen |-> gen[n]]]

GivenToChildren(c, ctx, n) ==
    IF dom.decl[n].has /\ EVENT_DESCENDENTS_COMPLETE \in Range(dom.decl[n].keys)
    THEN SameButAncestor(c, ctx, n)
    ELSE c = ctx

\* C5: in a traversal, the children of a node on which exactly one handler
\* claimed the descendants are not bound; the children of a node on which
\* none did are bound with the node's context, extended or not, when the
\* traversal completes; the children of script, textarea and template
\* elements are never bound.
C5_DescendantControl ==
    last.op \in {"applyBindings", "applyBindingsToDescendants"} =>
        \A i \in DOMAIN last.log :
            LET e == last.log[i]
                n == e.node
                children == Range(ChildrenOf(n))
            IN  e.ev = "bind" /\ e.key = "implicit" =>
                /\ Cardinality(ClaimsIn(last.log, n)) = 1
                      => \A c \in children : ~BoundIn(last.log, c)
                /\ dom.kind[n] \in BINDING_DOES_NOT_RECURSE_INTO_ELEMENT_TYPES
                      => \A c \in children : ~BoundIn(last.log, c)
                /\ (/\ ClaimsIn(last.log, n) = {}
                    /\ last.err.type = "none"
                    /\ dom.kind[n] \notin BINDING_DOES_NOT_RECURSE_INTO_ELEMENT_TYPES)
                      => \A c \in children :
                            Bindable(c) =>
                                \E j \in DOMAIN last.log :
                                    /\ j > i
                                    /\ last.log[j].ev = "bind" /\ last.log[j].node = c
                                    /\ last.log[j].key = "implicit"
                                    /\ GivenToChildren(last.log[j].ctx, e.ctx, n)

\* One traversal from the root met a template element that asked for
\* descendantsComplete and a virtual element whose handler claimed the
\* descendants, and bound both as children of the root.
C5_Witness ==
    /\ last.op = "applyBindings" /\ last.node = 1 /\ last.err.type = "none"
    /\ dom.kind[2] = "template"
    /\ EVENT_DESCENDENTS_COMPLETE \in Range(dom.decl[2].keys)
    /\ ClaimsIn(last.log, 4) = {"b"}
    /\ BoundIn(last.log, 2) /\ BoundIn(last.log, 4)
    /\ ~BoundIn(last.log, 3) /\ ~BoundIn(last.log, 5)

\* The context contextFor is to return for a node with the history b of
\* binding applications: that of the first implicit application, or of the
\* latest explicit one when there was no implicit one.
BoundContext(b) ==
    IF \E i \in DOMAIN b : b[i].how = "implicit"
    THEN b[CHOOSE i \in DOMAIN b :
              /\ b[i].how = "implicit"
              /\ \A j \in 1..(i - 1) : b[j].how # "implicit"].ctx
    ELSE b[Len(b)].ctx

\* C9: contextFor and dataFor return undefined for a node never bound and
\* for a text node, and for a bound element or comment the context it was
\* bound with and the $data of that context.
C9_ContextFor ==
    \A n \in Nodes :
        IF nodeType(n) = 3 \/ bound[n] = <<>>
        THEN contextFor(n) = NoCtx /\ dataFor(n) = Undefined
        ELSE /\ contextFor(n) = BoundContext(bound[n])
             /\ dataFor(n) = BoundContext(bound[n]).data
             /\ dataFor(n) \in ViewModels

\* A text node took an explicit map, a virtual element and an element were
\* bound by a traversal, and an element below a claiming handler never was.
C9_Witness ==
    /\ \E t \in Nodes : nodeType(t) = 3 /\ bound[t] # <<>>
    /\ \E c \in Nodes : nodeType(c) = 8 /\ bound[c] # <<>> /\ contextFor(c).isCtx
    /\ \E e \in Nodes : nodeType(e) = 1 /\ bound[e] # <<>> /\ contextFor(e).isCtx
    /\ \E u \in Nodes : nodeType(u) = 1 /\ bound[u] = <<>>

\* The children of n, their children, and so on.
RECURSIVE DescendantsOf(_)
DescendantsOf(n) ==
    Range(ChildrenOf(n)) \cup UNION {DescendantsOf(c) : c \in Range(ChildrenOf(n))}

\* What a call does to a node: it applies its bindings, runs their
\* handlers, notifies its events.
IsProcessing(e) == e.ev \in {"bind", "init", "update", "notify"}

\* C18: in the log of one call, whatever binds a node or runs a handler of
\* its bindings comes before everything done to its children and their
\* descendants, and the childrenComplete notification of a node comes
\* after everything done to them, their own childrenComplete included.
C18_ChildrenAfterParent ==
    \A i \in DOMAIN last.log : \A j \in DOMAIN last.log :
        LET a == last.log[i]
            b == last.log[j]
        IN  (IsProcessing(b) /\ b.node \in DescendantsOf(a.node))
            => /\ a.ev \in {"bind", "init", "update"} => i < j
               /\ (a.ev = "notify" /\ a.key = EVENT_CHILDREN_COMPLETE) => j < i

\* A traversal from the root that bound an element and its child, and the
\* child of a virtual element, and notified childrenComplete for all.
C18_Witness ==
    /\ last.op = "applyBindings" /\ last.node = 1 /\ last.err = NoErr
    /\ dom.kind[2] = "div"
    /\ BoundIn(last.log, 3) /\ BoundIn(last.log, 5)
    /\ \A n \in {1, 2, 3, 4, 5} :
          \E k \in DOMAIN last.log :
              /\ last.log[k].ev = "notify" /\ last.log[k].node = n
              /\ last.log[k].key = EVENT_CHILDREN_COMPLETE

\* Event `event` is notified for node n after position i of the log.
NotifiedAfter(log, i, n, event) ==
    \E j \in DOMAIN log :
        j > i /\ log[j].ev = "notify" /\ log[j].node = n /\ log[j].key = event

\* Node n asked for descendantsComplete and no descendant is outstanding.
AwaitsNoDescendant(n) ==
    /\ dom.decl[n].has /\ EVENT_DESCENDENTS_COMPLETE \in Range(dom.decl[n].keys)
    /\ info[n].acDesc = <<>>

\* In a traversal that returned normally, every node the driver bound, on
\* which no handler claimed the descendants and whose kind is in `kinds`,
\* was notified childrenComplete after it was bound, and descendantsComplete
\* too when it asked for it and no descendant is outstanding.
CompletedWhenBound(kinds) ==
    (last.op \in {"applyBindings", "applyBindingsToDescendants"} /\ last.err = NoErr)
    => \A i \in DOMAIN last.log :
          LET e == last.log[i] IN
          (/\ e.ev = "bind" /\ e.key = "implicit"
           /\ ClaimsIn(last.log, e.node) = {}
           /\ dom.kind[e.node] \in kinds)
          => /\ NotifiedAfter(last.log, i, e.node, EVENT_CHILDREN_COMPLETE)
             /\ AwaitsNoDescendant(e.node)
                => NotifiedAfter(last.log, i, e.node, EVENT_DESCENDENTS_COMPLETE)

\* C19: when applyBindings returns normally, childrenComplete was notified
\* for every node the driver bound and on which no handler claimed the
\* descendants, and descendantsComplete for every such node that asked for
\* it and has no outstanding descendant.
C19_AsStated == CompletedWhenBound(NodeKinds)

\* The same for the nodes the driver goes into: all but script, textarea
\* and template elements.
C19_RecursedNodes ==
    CompletedWhenBound(NodeKinds \ BINDING_DOES_NOT_RECURSE_INTO_ELEMENT_TYPES)

\* A traversal from the root returned normally; it bound a script, textarea
\* or template element that asked for descendantsComplete, on which no
\* handler claimed the descendants, and notified nothing for it: its
\* asyncContext is still waiting.
C19_Witness ==
    /\ last.op = "applyBindings" /\ last.node = 1 /\ last.err = NoErr
    /\ dom.kind[2] \in BINDING_DOES_NOT_RECURSE_INTO_ELEMENT_TYPES
    /\ BoundIn(last.log, 2) /\ ClaimsIn(last.log, 2) = {}
    /\ AwaitsNoDescendant(2)
    /\ ~NotifiedAfter(last.log, 0, 2, EVENT_CHILDREN_COMPLETE)
    /\ ~NotifiedAfter(last.log, 0, 2, EVENT_DESCENDENTS_COMPLETE)
    /\ info[2].ac = "active"
    /\ NotifiedAfter(last.log, 0, 1, EVENT_CHILDREN_COMPLETE)

\* What a step leaves of the record of every implicitly bound node: the
\* flag, and the context of the implicit application.
KeepsContext ==
    \A n \in Nodes :
        ImplicitlyBound(n)
        => /\ info[n].alreadyBound
           /\ contextFor(n) = BoundContext(bound[n])
           /\ info'[n].alreadyBound
           /\ contextFor(n)' = contextFor(n)

\* C27: once a node has been implicitly bound with a context, contextFor
\* of the node is that context in every later state, and the node's record
\* keeps its alreadyBound flag: applications of explicit bindings with
\* another context and rejected implicit applications change neither.
C27_ContextKept == [][KeepsContext]_vars

\* A node was implicitly bound, explicit bindings were then applied to it
\* with another context, and contextFor is the context of the first.
C27_Witness ==
    /\ last.op = "applyBindingsToNode"
    /\ last.err = NoErr
    /\ Len(bound[last.node]) = 2
    /\ bound[last.node][1].how = "implicit"
    /\ bound[last.node][2].how = "explicit"
    /\ bound[last.node][2].ctx # bound[last.node][1].ctx
    /\ contextFor(last.node) = bound[last.node][1].ctx

---------------------------------------------------------------------------
(* Binding contexts as objects.  heap[i] is the context object of identity *)
(* i: ctx holds its properties, P is the parentContext its constructor got *)
(* (0: none), A the other arguments, which _updateContext keeps in its     *)
(* closure.  active says whether the object kept its computed, deps which  *)
(* observables the last run of _updateContext read, depParent whether it   *)
(* read the parent's subscribable.                                         *)
(*                                                                         *)
(* The reactive runtime is a collaborator: a computed that is kept runs    *)
(* its function again, in the same call that changes a value it read, and  *)
(* so do, after it, the computeds that read it.                            *)

Object(ctx, P, A, active, deps, depParent) ==
    [ctx |-> ctx, P |-> P, A |-> A, active |-> active, deps |-> deps, depParent |-> depParent]

ParentOf(H, P) == IF P = 0 THEN NoCtx ELSE H[P].ctx

\* new KoBindingContext(dataItemOrAccessor, parentContext, dataItemAlias,
\* extendCallback, options) (lines 53-145), called outside any computed.
\* Returns [H, err]: the heap with the new object at its end, or the
\* exception.
newKoBindingContext(H, O, P, A) ==
    LET \* lines 126-129: _updateContext runs once, outside a computed; on
        \* line 112 getCurrentComputed() is then undefined
        Exported(r) ==
            IF r.readsParent THEN [H |-> H, err |-> Err("TypeError", 0)]
            ELSE [H |-> Append(H, Object(r.ctx, P, A, FALSE, {}, FALSE)), err |-> NoErr]
        \* lines 130-143
        Tracked(r, isActive) ==
            [H |-> Append(H, Object(IF isActive THEN r.ctx ELSE [r.ctx EXCEPT !.sub = 0],
                                    P, A, isActive, r.reads, r.readsParent)),
             err |-> NoErr]
        Peeked(r) == Tracked(r, r.reads # {} \/ r.readsParent)
    IN  IF A.exportDependencies
        THEN Exported(updateContext(NoCtx, ParentOf(H, P), P, A, 0, O))
        ELSE Peeked(updateContext(NoCtx, ParentOf(H, P), P, A, Len(H) + 1, O))

\* A createChildContext whose noChildContext branch hands the data on to
\* the constructor.
createChildContextSetsData(H, O, self, dataItemOrAccessor, dataItemAlias, props, options) ==
    IF dataItemAlias # "" /\ options.noChildContext
    THEN newKoBindingContext(H, O, self,
            CtxArgs(dataItemOrAccessor, "", "noChild", props,
                    [alias |-> dataItemAlias, acc |-> dataItemOrAccessor], NoRef, {},
                    options.exportDependencies, FALSE))
    ELSE newKoBindingContext(H, O, self,
            CtxArgs(dataItemOrAccessor, dataItemAlias, "child", props, NoInner, NoRef, {},
                    options.exportDependencies, FALSE))

\* createChildContext (lines 152-179) on the context `self`.
createChildContext(H, O, self, dataItemOrAccessor, dataItemAlias, props, options) ==
    IF dataItemAlias # "" /\ options.noChildContext
    THEN newKoBindingContext(H, O, self,
            CtxArgs(Accessor("inherit", Undefined, ""), "", "noChild", props,
                    [alias |-> dataItemAlias, acc |-> dataItemOrAccessor], NoRef, {},
                    options.exportDependencies, FALSE))
    ELSE newKoBindingContext(H, O, self,
            CtxArgs(dataItemOrAccessor, dataItemAlias, "child", props, NoInner, NoRef, {},
                    options.exportDependencies, FALSE))

\* extend (lines 184-188) on the context `self`.
extend(H, O, self, properties, options) ==
    newKoBindingContext(H, O, self,
        CtxArgs(Accessor("inherit", Undefined, ""), "", "extend", properties, NoInner, NoRef, {},
                options.exportDependencies, FALSE))

\* The computed of object i runs _updateContext again, on the same object.
Rebuild(H, O, i) ==
    LET Rebuilt(r) ==
            [H EXCEPT ![i].ctx = r.ctx, ![i].deps = r.reads, ![i].depParent = r.readsParent]
    IN  Rebuilt(updateContext(H[i].ctx, ParentOf(H, H[i].P), H[i].P, H[i].A, i, O))

\* Observable o has changed: from object i on, the computeds that read o,
\* or the computed of a parent rebuilt before them, run again.  Returns the
\* heap and the identities rebuilt, in order.
RECURSIVE Propagate(_, _, _, _, _)
Propagate(H, O, o, i, rebuilt) ==
    IF i > Len(H) THEN [H |-> H, rebuilt |-> rebuilt]
    ELSE IF H[i].active /\ (o \in H[i].deps \/ (H[i].depParent /\ H[i].P \in Range(rebuilt)))
    THEN Propagate(Rebuild(H, O, i), O, o, i + 1, Append(rebuilt, i))
    ELSE Propagate(H, O, o, i + 1, rebuilt)

---------------------------------------------------------------------------
(* The context specification: the host creates up to MaxContexts contexts  *)
(* (roots, children, extensions) from values, observables and functions,   *)
(* and writes the observables.                                             *)

MaxContexts == 3

DataAccessors ==
    {Value("vm1"), Accessor("obs", Undefined, "o1"), Accessor("fn", Undefined, "o1"),
     Accessor("fnObs", Undefined, "o2"), Accessor("fnConst", "vm2", "")}

Options == [exportDependencies : BOOLEAN, noChildContext : BOOLEAN]

\* The host's call returned r = [H, err]; keys names the arguments given
\* that last is to show.
Created(r, op, self, keys) ==
    /\ heap' = r.H
    /\ last' = [op |-> op, node |-> self, keys |-> keys,
                ctx |-> IF Failed(r) THEN NoCtx ELSE r.H[Len(r.H)].ctx,
                log |-> <<>>, err |-> r.err, n |-> last.n]
    /\ UNCHANGED <<handlers, dom, info, gen, tagged, bound, store, computeds>>

NewContext ==
    /\ Len(heap) < MaxContexts
    /\ \E acc \in DataAccessors, exportDependencies \in BOOLEAN :
          Created(newKoBindingContext(heap, store, 0,
                      CtxArgs(acc, "", "none", NoProps, NoInner, NoRef, {},
                              exportDependencies, FALSE)),
                  "new", 0, <<>>)

CreateChildContext ==
    /\ Len(heap) < MaxContexts
    /\ \E self \in DOMAIN heap, acc \in DataAccessors, alias \in {"", "x"}, options \in Options :
          Created(createChildContext(heap, store, self, acc, alias, NoProps, options),
                  "createChildContext", self,
                  (IF alias # "" THEN <<"as">> ELSE <<>>)
                      \o (IF options.noChildContext THEN <<"noChildContext">> ELSE <<>>))

ExtendContext ==
    /\ Len(heap) < MaxContexts
    /\ \E self \in DOMAIN heap, v \in ViewModels :
          Created(extend(heap, store, self, [NoProps EXCEPT !["y"] = v],
                         [exportDependencies |-> FALSE, noChildContext |-> FALSE]),
                  "extend", self, <<>>)

\* observable(value) with a value that differs from the current one.
Written(r, o) ==
    /\ heap' = r.H
    /\ last' = [op |-> "write", node |-> 0, keys |-> <<o>>, ctx |-> NoCtx,
                log |-> [i \in DOMAIN r.rebuilt |-> Ev("rebuild", r.rebuilt[i])],
                err |-> NoErr, n |-> last.n]
    /\ UNCHANGED <<handlers, dom, info, gen, tagged, bound, computeds>>

WriteObservable ==
    \E o \in Observables : \E v \in ViewModels \ {store[o]} :
        /\ store' = [store EXCEPT ![o] = v]
        /\ Written(Propagate(heap, [store EXCEPT ![o] = v], o, 1, <<>>), o)

InitCtx ==
    /\ handlers = Registry
    /\ dom = OneElement
    /\ info = [n \in DOMAIN OneElement.kind |-> NoInfo]
    /\ gen = [n \in DOMAIN OneElement.kind |-> 0]
    /\ tagged = {}
    /\ last = NoOp
    /\ bound = [n \in DOMAIN OneElement.kind |-> <<>>]
    /\ heap = <<>>
    /\ computeds = <<>>
    /\ store \in [Observables -> ViewModels]

NextCtx ==
    \/ NewContext
    \/ CreateChildContext
    \/ ExtendContext
    \/ WriteObservable

SpecCtx == InitCtx /\ [][NextCtx]_vars

---------------------------------------------------------------------------
(* Properties of context objects.                                          *)

\* The constructor's data accessor read an observable during construction:
\* the observable itself, or a function that read or returned it.
ReadsReactive(A) == A.acc.k \in {"obs", "fn", "fnObs"}

RebuiltIn(log, i) == \E j \in DOMAIN log : log[j].ev = "rebuild" /\ log[j].node = i

\* C6: a context object created, without the exportDependencies option,
\* from an accessor that read an observable has, under the identity it was
\* created with, $data equal to the observable's current value in every
\* state, hence after every change of the observable; a change rebuilds the
\* objects in place and creates none.
C6_ContextIdentity ==
    /\ \A i \in DOMAIN heap :
          ReadsReactive(heap[i].A) /\ ~heap[i].A.exportDependencies
          => /\ heap[i].ctx.data = store[heap[i].A.acc.o]
             /\ heap[i].active
    /\ last.op = "write" => \A j \in DOMAIN last.log : last.log[j].node \in DOMAIN heap

\* The observable read by a context kept under its identity was written,
\* the context was rebuilt and shows the new value.
C6_Witness ==
    /\ last.op = "write"
    /\ \E i \in DOMAIN heap :
          /\ ReadsReactive(heap[i].A) /\ ~heap[i].A.exportDependencies
          /\ heap[i].A.acc.o = last.keys[1]
          /\ RebuiltIn(last.log, i)
          /\ heap[i].ctx.data = store[last.keys[1]]

\* C6 as stated, for every context whose accessor read an observable during
\* construction, the exportDependencies option included.
C6_AsStated ==
    \A i \in DOMAIN heap :
        ReadsReactive(heap[i].A) => heap[i].ctx.data = store[heap[i].A.acc.o]

\* The data a context was created from, as the store has it now.
SuppliedData(A) == unwrapObservable(DataItemOrObservable(A.acc, store), store)

\* C12: a context created without a parent has no $parentContext and no
\* $parent, $parents = [] and $root = $data; a context that
\* createChildContext(data, alias) made on a context P has $parentContext =
\* P, $parent = P's $data, $parents = P's $data followed by P's $parents,
\* $data = the data supplied and the alias property = that data, whether P
\* is a root, a child or an extension.
C12_ContextHierarchy ==
    \A i \in DOMAIN heap :
        LET c == heap[i].ctx
            A == heap[i].A
        IN  /\ heap[i].P = 0
               => /\ ~c.hasParent
                  /\ c.parentContext = 0
                  /\ c.parents = <<>>
                  /\ c.root = c.data
            /\ A.ext = "child"
               => /\ c.hasParent
                  /\ c.parentContext = heap[i].P
                  /\ c.parent = heap[heap[i].P].ctx.data
                  /\ c.parents = <<heap[heap[i].P].ctx.data>> \o heap[heap[i].P].ctx.parents
                  /\ A.alias # "" => c.named[A.alias] = c.data
                  /\ (~A.exportDependencies
                      \/ (last.op = "createChildContext" /\ i = Len(heap)))
                     => c.data = SuppliedData(A)

\* A child with an alias, made on a child of a root.
C12_Witness ==
    /\ last.op = "createChildContext"
    /\ last.err = NoErr
    /\ Len(heap) = 3
    /\ heap[3].A.ext = "child" /\ heap[3].A.alias = "x" /\ heap[3].P = 2
    /\ heap[2].A.ext = "child" /\ heap[2].P = 1
    /\ heap[3].ctx.parents = <<heap[2].ctx.data, heap[1].ctx.data>>

\* The properties the claim names are those of context p in context c.
SameLevel(c, p) ==
    /\ c.data = p.data
    /\ c.rawData = p.rawData
    /\ c.hasParent = p.hasParent
    /\ c.parent = p.parent
    /\ c.parents = p.parents
    /\ c.parentContext = p.parentContext

\* C17: a createChildContext called with an alias and the noChildContext
\* option returns a context that has, then and in every later state, the
\* $data, $rawData, $parent, $parents and $parentContext (and $root) of the
\* context it was called on, and differs from it in the alias property
\* only.
C17_NoChildContext ==
    /\ (/\ last.op = "createChildContext"
        /\ last.err = NoErr
        /\ last.keys = <<"as", "noChildContext">>)
       => /\ heap[Len(heap)].A.ext = "noChild"
          /\ heap[Len(heap)].P = last.node
    /\ \A i \in DOMAIN heap :
          heap[i].A.ext = "noChild"
          => LET c == heap[i].ctx
                 p == heap[heap[i].P].ctx
             IN  /\ SameLevel(c, p)
                 /\ c.root = p.root
                 /\ \A k \in PropNames \ {heap[i].A.inner.alias} : c.named[k] = p.named[k]
                 /\ c.named[heap[i].A.inner.alias] # Undefined

\* A context made with an alias and noChildContext on a child context whose
\* data comes from an observable, after the observable was written.
C17_Witness ==
    /\ last.op = "write"
    /\ Len(heap) = 3
    /\ heap[3].A.ext = "noChild" /\ heap[3].P = 2
    /\ heap[2].A.ext = "child" /\ heap[2].P = 1
    /\ RebuiltIn(last.log, 2)
    /\ heap[3].ctx.data = store[last.keys[1]]
    /\ heap[3].ctx.parents = <<heap[1].ctx.data>>

\* C17 as stated: every createChildContext called with the noChildContext
\* option, with an alias or without, returns a context with the $data,
\* $rawData, $parent, $parents and $parentContext of the calling context.
C17_AsStated ==
    (/\ last.op = "createChildContext"
     /\ last.err = NoErr
     /\ "noChildContext" \in Range(last.keys))
    => SameLevel(heap[Len(heap)].ctx, heap[last.node].ctx)

\* Object p was rebuilt in the log, and object i after it.
RebuiltAfter(log, p, i) ==
    \E a, b \in DOMAIN log :
        /\ a < b
        /\ log[a].ev = "rebuild" /\ log[a].node = p
        /\ log[b].ev = "rebuild" /\ log[b].node = i

\* The properties object i does not set itself: those it takes from its
\* parent context.
InheritedNames(i) ==
    {k \in PropNames : /\ heap[i].A.props[k] = Undefined
                       /\ k # heap[i].A.alias
                       /\ k # heap[i].A.inner.alias}

---------------------------------------------------------------------------
(* The completion specification: an element with two child elements.  A    *)
(* call applies a descendantsComplete binding to a node, which starts the  *)
(* tracking of its descendants under the context given; or notifies a      *)
(* node's childrenComplete; or cleans a node.                              *)

\* The most nodes cleaned in a behaviour; a cleaned node gets a new record
\* when it is bound again.
MaxCleans == 1

Cleans == Cardinality({p \in Nodes \X (1..MaxCleans) : p[2] <= gen[p[1]]})

AsyncDocument ==
    [kind |-> <<"div", "div", "div">>,
     kids |-> << <<2, 3>>, <<>>, <<>> >>,
     decl |-> <<NoDecl, NoDecl, NoDecl>>]

\* The contexts a caller binds a node with here: a root context, or the
\* context that the binding of a tracked node above it gave for its
\* descendants (line 304), taken as an extension of the root context.
AsyncContexts(node) ==
    {RootContext("vm1")}
    \cup {extendWithBindingInfo(RootContext("vm1"), RefOf(World, n), info[n]) :
            n \in {m \in Nodes : /\ node \in Range(dom.kids[m])
                                 /\ info[m].exists
                                 /\ info[m].ac # "undefined"}}

\* applyBindingAccessorsToNode(node, {descendantsComplete: callback}, context)
TrackDescendants ==
    \E node \in Nodes : \E context \in AsyncContexts(node) :
        FinishEvent(applyBindingAccessorsToNode(World, node,
                        Source(<<EVENT_DESCENDENTS_COMPLETE>>), context),
                    "applyBindingsToNode", node, <<EVENT_DESCENDENTS_COMPLETE>>, context)

\* bindingEvent.notify(node, EVENT_CHILDREN_COMPLETE)
NotifyChildrenComplete ==
    \E node \in Nodes :
        FinishEvent(notify(World, node, EVENT_CHILDREN_COMPLETE),
                    "notify", node, <<EVENT_CHILDREN_COMPLETE>>, NoCtx)

\* The node is removed from the document and cleaned.
CleanNode ==
    \E node \in Nodes :
        /\ info[node].exists
        /\ Cleans < MaxCleans
        /\ FinishEvent(cleanNode(World, node), "cleanNode", node, <<>>, NoCtx)

InitAsync ==
    /\ handlers = Registry
    /\ dom = AsyncDocument
    /\ info = [n \in DOMAIN AsyncDocument.kind |-> NoInfo]
    /\ gen = [n \in DOMAIN AsyncDocument.kind |-> 0]
    /\ tagged = {}
    /\ last = NoOp
    /\ bound = [n \in DOMAIN AsyncDocument.kind |-> <<>>]
    /\ heap = <<>>
    /\ computeds = <<>>
    /\ store = [o \in Observables |-> "vm1"]

NextAsync ==
    \/ TrackDescendants
    \/ NotifyChildrenComplete
    \/ CleanNode

SpecAsync == InitAsync /\ [][NextAsync]_vars

---------------------------------------------------------------------------
(* Claims about the completion of descendants.                             *)

\* The descendantsComplete notifications of the last call.
DescendantsCompleteNotified ==
    {last.log[i] : i \in {j \in DOMAIN last.log :
                            /\ last.log[j].ev = "notify"
                            /\ last.log[j].key = EVENT_DESCENDENTS_COMPLETE}}

\* C7: a tracked node notifies descendantsComplete once for a tracking
\* context, and only when each node that registered with that context as
\* an outstanding descendant has notified its own descendantsComplete or
\* has had its context disposed of, whatever the order of the descendants
\* and of the node's own childrenComplete.
C7_AfterDescendants ==
    \A e \in DescendantsCompleteNotified :
        /\ e.fired = 0
        /\ e.unfired \subseteq e.disposed

\* The node's childrenComplete came first, then both descendants: the
\* notification of the second one makes the node notify.
C7_Witness ==
    /\ last.op = "notify"
    /\ last.node \in {2, 3}
    /\ \E e \in DescendantsCompleteNotified :
          /\ e.node = 1
          /\ e.registered = {2, 3}
          /\ e.unfired = {}
          /\ e.disposed = {}

\* C7 as the specification states it: every registered descendant has
\* notified its own descendantsComplete before the node does.
C7_AsStated ==
    \A e \in DescendantsCompleteNotified :
        /\ e.fired = 0
        /\ e.unfired = {}

\* C8: descendantsComplete is notified for a node only when its
\* childrenComplete has been notified, its context has seen the children
\* complete, and the context's list of outstanding descendants is empty.
C8_NotifiedWhenComplete ==
    \A e \in DescendantsCompleteNotified :
        /\ e.ccNotified
        /\ e.ccFlag
        /\ e.outstanding = 0

\* A node that had descendants registered notifies on its own
\* childrenComplete.
C8_Witness ==
    /\ last.op = "notify"
    /\ \E e \in DescendantsCompleteNotified :
          /\ e.node = last.node
          /\ e.registered # {}
          /\ e.ccNotified
          /\ e.outstanding = 0

---------------------------------------------------------------------------
(* The virtual element specification: an element whose children are every  *)
(* sequence of up to MaxSiblings start comments, end comments, other       *)
(* comments, elements and text nodes; childNodes is called on its nodes.   *)

MaxSiblings == 4

SiblingKinds == {"ko", "/ko", "comment", "div", "text"}

\* Node 1 is the parent, nodes 2 .. Len(kinds) + 1 its children in order.
SiblingDocument(kinds) ==
    [kind |-> <<"div">> \o kinds,
     kids |-> [n \in 1..(Len(kinds) + 1) |->
                 IF n = 1 THEN [i \in 1..Len(kinds) |-> i + 1] ELSE <<>>],
     decl |-> [n \in 1..(Len(kinds) + 1) |-> NoDecl]]

\* The call returned r = [W, val]: the end comments it tagged stay tagged,
\* and last holds the nodes returned.
Returned(r, op, node) ==
    /\ tagged' = r.W.tagged
    /\ last' = [op |-> op, node |-> node, keys |-> <<>>, ctx |-> NoCtx,
                log |-> <<[Ev("return", node) EXCEPT !.nodes = r.val]>>,
                err |-> r.W.err, n |-> 0]
    /\ UNCHANGED <<handlers, dom, info, gen, bound, heap, store, computeds>>

\* virtualElements.childNodes(node)
ChildNodes ==
    \E node \in Nodes : Returned(childNodes(World, node), "childNodes", node)

\* The same for a call with arguments beyond the node; val is the sequence
\* the log holds for the value returned.
ReturnedFrom(W, val, op, node, keys) ==
    /\ tagged' = W.tagged
    /\ last' = [op |-> op, node |-> node, keys |-> keys, ctx |-> NoCtx,
                log |-> <<[Ev("return", node) EXCEPT !.nodes = val]>>,
                err |-> W.err, n |-> 0]
    /\ UNCHANGED <<handlers, dom, info, gen, bound, heap, store, computeds>>

\* The second argument as last.keys records it.
UnbalancedFlag(allowUnbalanced) == IF allowUnbalanced THEN <<"allowUnbalanced">> ELSE <<>>

\* _getVirtualChildren(startComment, allowUnbalanced); the log holds the
\* children, or nothing for null.
GetVirtualChildren ==
    \E node \in Nodes, allowUnbalanced \in BOOLEAN :
        LET Got(r) == ReturnedFrom(r.W, r.val.children, "getVirtualChildren", node,
                                   UnbalancedFlag(allowUnbalanced) \o
                                       (IF r.val.null THEN <<"null">> ELSE <<>>))
        IN  /\ isStartComment(node)
            /\ Got(getVirtualChildren(World, node, allowUnbalanced))

\* _getMatchingEndComment(startComment, allowUnbalanced); the log holds the
\* end comment, or nothing for null.
GetMatchingEndComment ==
    \E node \in Nodes, allowUnbalanced \in BOOLEAN :
        LET Got(r) == ReturnedFrom(r.W, IF r.val = 0 THEN <<>> ELSE <<r.val>>,
                                   "getMatchingEndComment", node,
                                   UnbalancedFlag(allowUnbalanced))
        IN  /\ isStartComment(node)
            /\ Got(getMatchingEndComment(World, node, allowUnbalanced))

\* virtualElements.firstChild(node); the log holds the node, or nothing for
\* null.
FirstChild ==
    \E node \in Nodes :
        LET Got(r) == ReturnedFrom(r.W, IF r.val = 0 THEN <<>> ELSE <<r.val>>,
                                   "firstChild", node, <<>>)
        IN  Got(firstChild(World, node))

\* virtualElements.nextSibling(node); the log holds the node, or nothing
\* for null.
NextSibling ==
    \E node \in Nodes :
        LET Got(r) == ReturnedFrom(r.W, IF r.val = 0 THEN <<>> ELSE <<r.val>>,
                                   "nextSibling", node, <<>>)
        IN  Got(nextSibling(World, node))

\* The iteration over the children of a node that the driver makes (lines
\* 342 and 357-361): firstChild(node), then nextSibling of each node
\* reached, up to null.  Returns [W, val], val the nodes visited.
RECURSIVE VisitSiblings(_, _, _)
VisitSiblings(W, currentChild, visited) ==
    LET Queued(nextInQueue) ==
            VisitSiblings(nextInQueue.W, nextInQueue.val, Append(visited, currentChild))
    IN  IF Failed(W) \/ currentChild = 0 THEN [W |-> W, val |-> visited]
        ELSE Queued(nextSibling(W, currentChild))

VisitChildren(W, node) ==
    LET First(r) == VisitSiblings(r.W, r.val, <<>>)
    IN  First(firstChild(W, node))

\* The iteration from a start comment; the log holds the nodes visited.
WalkChildren ==
    \E node \in Nodes :
        LET Got(r) == ReturnedFrom(r.W, r.val, "walkChildren", node, <<>>)
        IN  /\ isStartComment(node)
            /\ Got(VisitChildren(World, node))

InitVE ==
    /\ handlers = Registry
    /\ \E kinds \in UNION {[1..k -> SiblingKinds] : k \in 0..MaxSiblings} :
          /\ dom = SiblingDocument(kinds)
          /\ info = [n \in 1..(Len(kinds) + 1) |-> NoInfo]
          /\ gen = [n \in 1..(Len(kinds) + 1) |-> 0]
          /\ bound = [n \in 1..(Len(kinds) + 1) |-> <<>>]
    /\ tagged = {}
    /\ last = NoOp
    /\ heap = <<>>
    /\ computeds = <<>>
    /\ store = [o \in Observables |-> "vm1"]

NextVE ==
    \/ ChildNodes
    \/ GetVirtualChildren
    \/ GetMatchingEndComment
    \/ FirstChild
    \/ NextSibling
    \/ WalkChildren

SpecVE == InitVE /\ [][NextVE]_vars

---------------------------------------------------------------------------
(* Claims about virtual elements.                                          *)

\* The start comments minus the end comments among positions a .. b of the
\* sequence of nodes s.
MarkerDepth(s, a, b) ==
    Cardinality({i \in a..b : dom.kind[s[i]] = "ko"})
    - Cardinality({i \in a..b : dom.kind[s[i]] = "/ko"})

\* Positions a .. b of s hold matched pairs only.
Balanced(s, a, b) ==
    /\ MarkerDepth(s, a, b) = 0
    /\ \A m \in a..b : MarkerDepth(s, a, m) >= 0

\* The position of the end comment that closes the start comment at
\* position i of s (0: none).
MatchedEnd(s, i) ==
    LET Closes(j) == dom.kind[s[j]] = "/ko" /\ Balanced(s, i + 1, j - 1)
    IN  IF \E j \in (i + 1)..Len(s) : Closes(j)
        THEN CHOOSE j \in (i + 1)..Len(s) : Closes(j)
        ELSE 0

\* C10: when the siblings of a start comment are a well-formed sequence of
\* (possibly nested) marker pairs, childNodes of the start comment returns
\* the nodes strictly between it and its matched end comment, in document
\* order, nested markers included, and raises nothing.
C10_ChildNodesBetweenMarkers ==
    LET s == dom.kids[1]
        i == IndexOf(s, last.node)
    IN  (/\ last.op = "childNodes"
         /\ isStartComment(last.node)
         /\ Balanced(s, 1, Len(s)))
        => /\ last.err = NoErr
           /\ MatchedEnd(s, i) # 0
           /\ last.log[1].nodes = SubSeq(s, i + 1, MatchedEnd(s, i) - 1)

\* childNodes of the outer start comment of ko ko /ko /ko.
C10_Witness ==
    /\ last.op = "childNodes"
    /\ isStartComment(last.node)
    /\ Balanced(dom.kids[1], 1, Len(dom.kids[1]))
    /\ last.err = NoErr
    /\ \E k \in DOMAIN last.log[1].nodes : dom.kind[last.log[1].nodes[k]] = "ko"
    /\ \E k \in DOMAIN last.log[1].nodes : dom.kind[last.log[1].nodes[k]] = "/ko"

\* C11: for a start comment that no end comment among its following
\* siblings closes, _getVirtualChildren and _getMatchingEndComment raise
\* the structural error that names the start comment when allowUnbalanced
\* is false, and return null and raise nothing when it is true.
C11_UnclosedStartComment ==
    LET s == dom.kids[1]
        unbalanced == "allowUnbalanced" \in Range(last.keys)
    IN  (/\ last.op \in {"getVirtualChildren", "getMatchingEndComment"}
         /\ MatchedEnd(s, IndexOf(s, last.node)) = 0)
        => IF unbalanced
           THEN /\ last.err = NoErr
                /\ last.log[1].nodes = <<>>
                /\ last.op = "getVirtualChildren" => "null" \in Range(last.keys)
           ELSE /\ last.err.type = "NoClosingComment"
                /\ last.err.type \in STRUCTURAL_ERRORS
                /\ last.err.node = last.node

\* An inner pair is closed and the outer start comment is not: the scan of
\* the outer one raises.
C11_Witness ==
    /\ last.op = "getMatchingEndComment"
    /\ last.keys = <<>>
    /\ MatchedEnd(dom.kids[1], IndexOf(dom.kids[1], last.node)) = 0
    /\ \E j \in DOMAIN dom.kids[1] :
          /\ j > IndexOf(dom.kids[1], last.node)
          /\ dom.kind[dom.kids[1][j]] = "/ko"
    /\ last.err.type = "NoClosingComment"
    /\ last.err.node = last.node

\* C13: a node that is cleaned while it is an outstanding descendant of an
\* ancestor's context is taken off the ancestor's list: the list of an
\* active context holds only nodes whose own context is active.  And the
\* ancestor notifies descendantsComplete as soon as its childrenComplete
\* has come and every descendant that registered has notified or been
\* disposed of: no context with a disposed descendant is left waiting then.
C13_DisposedDescendant ==
    \A n \in Nodes :
        info[n].exists
        => /\ info[n].ac = "active"
              => \A k \in DOMAIN info[n].acDesc :
                    /\ info[info[n].acDesc[k]].exists
                    /\ info[info[n].acDesc[k]].ac = "active"
                    /\ info[info[n].acDesc[k]].acAnc = [node |-> n, gen |-> gen[n]]
           /\ (/\ info[n].acDisposed # {}
               /\ info[n].acCC
               /\ info[n].acUnfired \subseteq info[n].acDisposed)
              => /\ info[n].ac = "null"
                 /\ info[n].acFired = 1

\* The parent's childrenComplete had come; its last outstanding descendant
\* is cleaned, and in that call the parent notifies descendantsComplete.
C13_Witness ==
    /\ last.op = "cleanNode"
    /\ \E e \in DescendantsCompleteNotified :
          /\ e.node = 1
          /\ e.node # last.node
          /\ last.node \in e.unfired
          /\ last.node \in e.disposed
          /\ e.outstanding = 0

---------------------------------------------------------------------------
(* The event specification: an element with one child element.  A call     *)
(* applies a plain binding or a descendantsComplete binding to a node,     *)
(* subscribes a callback to descendantsComplete on a node, notifies a      *)
(* node's childrenComplete, or cleans a node.                              *)

EventDocument ==
    [kind |-> <<"div", "div">>, kids |-> << <<2>>, <<>> >>, decl |-> <<NoDecl, NoDecl>>]

\* applyBindingAccessorsToNode(node, {a: accessor}, context)
BindPlain ==
    \E node \in Nodes : \E context \in AsyncContexts(node) :
        FinishEvent(applyBindingAccessorsToNode(World, node, Source(<<"a">>), context),
                    "applyBindingsToNode", node, <<"a">>, context)

\* bindingEvent.subscribe(node, EVENT_DESCENDENTS_COMPLETE, callback, null,
\* {notifyImmediately})
Subscribe ==
    \E node \in Nodes, notifyImmediately \in BOOLEAN :
        FinishEvent(subscribe(World, node, EVENT_DESCENDENTS_COMPLETE, "user", notifyImmediately),
                    "subscribe", node,
                    <<EVENT_DESCENDENTS_COMPLETE>>
                        \o (IF notifyImmediately THEN <<"notifyImmediately">> ELSE <<>>),
                    NoCtx)

InitEvent ==
    /\ handlers = Registry
    /\ dom = EventDocument
    /\ info = [n \in DOMAIN EventDocument.kind |-> NoInfo]
    /\ gen = [n \in DOMAIN EventDocument.kind |-> 0]
    /\ tagged = {}
    /\ last = NoOp
    /\ bound = [n \in DOMAIN EventDocument.kind |-> <<>>]
    /\ heap = <<>>
    /\ computeds = <<>>
    /\ store = [o \in Observables |-> "vm1"]

NextEvent ==
    \/ BindPlain
    \/ TrackDescendants
    \/ Subscribe
    \/ NotifyChildrenComplete
    \/ CleanNode

SpecEvent == InitEvent /\ [][NextEvent]_vars

\* C14: subscribing to descendantsComplete never raises the error that the
\* event is not supported, tracked or not.  The error is raised by the
\* notification of childrenComplete for a node, exactly when the node's
\* record has never had an asyncContext and holds a subscription to
\* descendantsComplete; it is not raised when the record has or had one.
C14_UnsupportedAtChildrenComplete ==
    /\ last.op = "subscribe" => last.err.type # "DescendantsCompleteNotSupported"
    /\ last.op = "notify"
       => (last.err.type = "DescendantsCompleteNotSupported"
           <=> /\ info[last.node].exists
               /\ info[last.node].hasNotifiedEvents
               /\ info[last.node].ac = "undefined"
               /\ hasSubscriptionsForEvent(info[last.node], EVENT_DESCENDENTS_COMPLETE))
    /\ last.op \notin {"subscribe", "notify"}
       => last.err.type # "DescendantsCompleteNotSupported"

\* A bound node without tracking, though its parent is tracked, has a
\* subscriber to descendantsComplete; its childrenComplete raises the error.
C14_Witness ==
    /\ last.op = "notify"
    /\ last.node = 2
    /\ last.err.type = "DescendantsCompleteNotSupported"
    /\ info[2].ac = "undefined"
    /\ info[1].exists /\ info[1].ac # "undefined"
    /\ info[2].context.anc = [node |-> 1, gen |-> gen[1]]

\* C14 as stated: the subscription itself fails on a node whose record
\* never had an asyncContext.
C14_AsStated ==
    (/\ last.op = "subscribe"
     /\ info[last.node].ac = "undefined")
    => last.err.type = "DescendantsCompleteNotSupported"

\* The node at position i of s, or 0 past its end.
NodeAt(s, i) == IF i \in DOMAIN s THEN s[i] ELSE 0

\* C15: firstChild of a node that is not a start comment raises a
\* structural error when the node's first child is an end comment, and
\* returns the first child otherwise.  nextSibling, from the node or from
\* the end comment that closes it when it is a start comment, raises a
\* structural error when the next sibling is an end comment that no scan
\* has tagged, returns null when it is a tagged one, and returns the
\* sibling otherwise.
C15_EndCommentGuards ==
    LET s == dom.kids[1]
        i == IndexOf(s, last.node)
        first == NodeAt(dom.kids[last.node], 1)
        from == IF isStartComment(last.node) THEN MatchedEnd(s, i) ELSE i
        sib == IF last.node = 1 THEN 0 ELSE NodeAt(s, from + 1)
    IN  /\ (last.op = "firstChild" /\ ~isStartComment(last.node))
           => IF first # 0 /\ dom.kind[first] = "/ko"
              THEN /\ last.err.type = "EndCommentFirstChild"
                   /\ last.err.type \in STRUCTURAL_ERRORS
              ELSE /\ last.err = NoErr
                   /\ last.log[1].nodes = IF first = 0 THEN <<>> ELSE <<first>>
        /\ (last.op = "nextSibling" /\ from # 0)
           => IF sib # 0 /\ dom.kind[sib] = "/ko"
              THEN IF sib \in tagged
                   THEN last.err = NoErr /\ last.log[1].nodes = <<>>
                   ELSE /\ last.err.type = "UnmatchedEndComment"
                        /\ last.err.type \in STRUCTURAL_ERRORS
              ELSE /\ last.err = NoErr
                   /\ last.log[1].nodes = IF sib = 0 THEN <<>> ELSE <<sib>>

\* nextSibling of an element followed by an end comment that nothing opens.
C15_Witness ==
    /\ last.op = "nextSibling"
    /\ dom.kind[last.node] = "div"
    /\ last.node # 1
    /\ ~Balanced(dom.kids[1], 1, Len(dom.kids[1]))
    /\ last.err.type = "UnmatchedEndComment"

---------------------------------------------------------------------------
(* The editing specification: prepend, insertAfter, emptyNode and          *)
(* setDomNodeChildren on the start comments of a sequence of siblings.     *)

MaxList == 2

EditKinds == {"ko", "/ko", "div"}
SpareKinds == <<"div", "text">>

\* The siblings of SiblingDocument, and after them the nodes of SpareKinds,
\* which are in no document yet.
EditDocument(kinds) ==
    [kind |-> <<"div">> \o kinds \o SpareKinds,
     kids |-> [n \in 1..(Len(kinds) + 1 + Len(SpareKinds)) |->
                 IF n = 1 THEN [i \in 1..Len(kinds) |-> i + 1] ELSE <<>>],
     decl |-> [n \in 1..(Len(kinds) + 1 + Len(SpareKinds)) |-> NoDecl]]

\* The containers the operations are called on: start comments in the
\* document that an end comment closes.
Containers ==
    {n \in Nodes : /\ isStartComment(n)
                   /\ n \in Range(dom.kids[1])
                   /\ MatchedEnd(dom.kids[1], IndexOf(dom.kids[1], n)) # 0}

\* The nodes the callers insert: nodes that are no markers, in the document
\* or not.
Insertable == {n \in Nodes \ {1} : ~isStartComment(n) /\ ~isEndComment(n)}

\* The children of container c, read off the document.
VirtualChildrenOf(c) ==
    LET s == dom.kids[1]
        i == IndexOf(s, c)
    IN  SubSeq(s, i + 1, MatchedEnd(s, i) - 1)

\* The call left the world W; last holds the nodes given and, when there is
\* one, the node to insert after.
Edited(W, op, node, list, after) ==
    /\ dom' = [dom EXCEPT !.kids = W.kids]
    /\ info' = W.info
    /\ gen' = W.gen
    /\ tagged' = W.tagged
    /\ last' = [op |-> op, node |-> node, keys |-> <<>>, ctx |-> NoCtx,
                log |-> <<[Ev("arg", node) EXCEPT !.nodes = list]>>
                        \o (IF after = 0 THEN <<>> ELSE <<Ev("after", after)>>),
                err |-> W.err, n |-> 0]
    /\ UNCHANGED <<handlers, bound, heap, store, computeds>>

\* virtualElements.prepend(containerNode, nodeToPrepend)
Prepend ==
    \E c \in Containers, n \in Insertable :
        Edited(prepend(World, c, n), "prepend", c, <<n>>, 0)

\* virtualElements.insertAfter(containerNode, nodeToInsert, insertAfterNode)
InsertAfter ==
    \E c \in Containers, n \in Insertable :
        \E a \in (Range(VirtualChildrenOf(c)) \ {n}) \cup {0} :
            Edited(insertAfter(World, c, n, a), "insertAfter", c, <<n>>, a)

\* virtualElements.emptyNode(node)
EmptyNode ==
    \E c \in Containers : Edited(emptyNode(World, c), "emptyNode", c, <<>>, 0)

\* virtualElements.setDomNodeChildren(node, childNodes)
SetDomNodeChildren ==
    \E c \in Containers, list \in SeqsUpTo(Insertable, MaxList) :
        Edited(setDomNodeChildren(World, c, list), "setDomNodeChildren", c, list, 0)

InitEdit ==
    /\ handlers = Registry
    /\ \E kinds \in UNION {[1..k -> EditKinds] : k \in 0..MaxSiblings} :
          /\ dom = EditDocument(kinds)
          /\ info = [n \in 1..(Len(kinds) + 1 + Len(SpareKinds)) |-> NoInfo]
          /\ gen = [n \in 1..(Len(kinds) + 1 + Len(SpareKinds)) |-> 0]
          /\ bound = [n \in 1..(Len(kinds) + 1 + Len(SpareKinds)) |-> <<>>]
    /\ tagged = {}
    /\ last = NoOp
    /\ heap = <<>>
    /\ computeds = <<>>
    /\ store = [o \in Observables |-> "vm1"]

NextEdit ==
    \/ Prepend
    \/ InsertAfter
    \/ EmptyNode
    \/ SetDomNodeChildren

SpecEdit == InitEdit /\ [][NextEdit]_vars

\* What a call on container last'.node leaves: no error, the container
\* closed by the end comment that closed it before, the nodes given among
\* its children, and each at the place its operation names.
EditStep ==
    LET c == last'.node
        s == dom.kids[1]
        t == dom'.kids[1]
        i == IndexOf(t, c)
        j == MatchedEnd(t, i)
        inside == SubSeq(t, i + 1, j - 1)
        list == last'.log[1].nodes
        after == IF Len(last'.log) = 2 THEN last'.log[2].node ELSE 0
    IN  /\ last'.err = NoErr
        /\ i # 0 /\ j # 0
        /\ t[j] = s[MatchedEnd(s, IndexOf(s, c))]
        /\ Range(list) \subseteq Range(inside)
        /\ last'.op = "prepend" => t[i + 1] = list[1]
        /\ last'.op = "insertAfter"
           => IF after = 0 THEN t[i + 1] = list[1]
              ELSE /\ after \in Range(inside)
                   /\ t[IndexOf(t, after) + 1] = list[1]
        /\ last'.op = "emptyNode" => inside = <<>>
        /\ last'.op = "setDomNodeChildren" => inside = list

\* C16: every prepend, insertAfter, emptyNode and setDomNodeChildren on a
\* start comment that an end comment closes leaves it closed by the same
\* end comment, with every node given strictly between the two: prepend
\* puts the node right after the start comment, insertAfter right after the
\* child given, and after setDomNodeChildren the children are the list, in
\* order.
C16_EditsKeepContainer == [][EditStep]_vars

\* An insertAfter that put a node after a child of a container nested in
\* another.
C16_Witness ==
    /\ last.op = "insertAfter"
    /\ Len(last.log) = 2
    /\ last.err = NoErr
    /\ last.log[1].nodes[1] \in Range(VirtualChildrenOf(last.node))
    /\ \E o \in Containers \ {last.node} : last.node \in Range(VirtualChildrenOf(o))

---------------------------------------------------------------------------
(* The walk specification: one call of applyBindings or                    *)
(* applyBindingsToDescendants on a document whose bindings may take their  *)
(* node out of its place.  Binding b removes its node, binding c moves it. *)

WalkRegistry(moves) ==
    [k \in Keys |->
        CASE k = "a" -> Handler(<<>>, FALSE, "plain", "plain", TRUE)
          [] k = "b" -> Handler(<<>>, FALSE, "removes", "plain", TRUE)
          [] k = "c" -> Handler(<<>>, FALSE, moves, "plain", TRUE)
          [] OTHER -> NoHandler]

WalkDeclarations == {Decl(<<"a">>), Decl(<<"b">>), Decl(<<"c">>)}

\* An element, a virtual element with one child, and an element after it.
WalkDocument(d2, d3, d4) ==
    [kind |-> <<"div", "div", "ko", "div", "/ko", "div">>,
     kids |-> << <<2, 3, 4, 5, 6>>, <<>>, <<>>, <<>>, <<>>, <<>> >>,
     decl |-> <<NoDecl, d2, d3, d4, NoDecl, Decl(<<"a">>)>>]

InitWalk ==
    /\ handlers \in {WalkRegistry(moves) : moves \in {"movesForward", "movesFirst"}}
    /\ \E d2 \in WalkDeclarations, d3 \in WalkDeclarations, d4 \in WalkDeclarations :
          dom = WalkDocument(d2, d3, d4)
    /\ info = [n \in 1..6 |-> NoInfo]
    /\ gen = [n \in 1..6 |-> 0]
    /\ tagged = {}
    /\ last = NoOp
    /\ bound = [n \in 1..6 |-> <<>>]
    /\ heap = <<>>
    /\ computeds = <<>>
    /\ store = [o \in Observables |-> "vm1"]

WalkFromNode == last.op = "none" /\ ApplyBindings(CallerContexts)

WalkDescendants == last.op = "none" /\ ApplyBindingsToDescendants(CallerContexts)

NextWalk ==
    \/ WalkFromNode
    \/ WalkDescendants

SpecWalk == InitWalk /\ [][NextWalk]_vars

\* The positions of log at which node n was bound.
BindsOf(log, n) == {i \in DOMAIN log : log[i].ev = "bind" /\ log[i].node = n}

\* An init of node n in log took the node out of its place, and every init
\* that changed the document was of a kind in `kinds`.
TookOut(log, n, kinds) ==
    /\ \E i \in DOMAIN log :
          /\ log[i].ev = "init" /\ log[i].node = n
          /\ handlers[log[i].key].init \in InitChangesDocument
    /\ \A i \in DOMAIN log :
          (log[i].ev = "init" /\ handlers[log[i].key].init \in InitChangesDocument)
          => handlers[log[i].key].init \in kinds

\* What a call makes of the document it found (dom; last' is the call),
\* for every container it went into, which is the node it was called on or
\* a node it bound: the children are bound at most once each and in the
\* order they had; when a binding of one of them took it out of its place
\* by an init of a kind in `kinds`, each child that followed it is bound
\* exactly once; and the children of a virtual element are bound after the
\* start comment and before its childrenComplete.
WalkStep(kinds) ==
    LET log == last'.log IN
    \A c \in {n \in Nodes : n = last'.node \/ BindsOf(log, n) # {}} :
        LET s == ChildrenOf(c) IN
        \A p \in DOMAIN s : \A q \in DOMAIN s :
            LET x == s[p]
                y == s[q]
            IN  /\ Cardinality(BindsOf(log, x)) <= 1
                /\ (p < q /\ BindsOf(log, x) # {} /\ BindsOf(log, y) # {})
                   => \A i \in BindsOf(log, x) : \A j \in BindsOf(log, y) : i < j
                /\ (p < q /\ BindsOf(log, x) # {} /\ TookOut(log, x, kinds) /\ Bindable(y))
                   => Cardinality(BindsOf(log, y)) = 1
                /\ (isStartComment(c) /\ BindsOf(log, x) # {})
                   => /\ \A i \in BindsOf(log, c) : \A j \in BindsOf(log, x) : i < j
                      /\ BindsOf(log, c) # {}
                      /\ \A k \in DOMAIN log :
                            (/\ log[k].ev = "notify" /\ log[k].node = c
                             /\ log[k].key = EVENT_CHILDREN_COMPLETE)
                            => \A j \in BindsOf(log, x) : j < k

\* C20 as stated: in one traversal the children of a container are bound
\* in document order and each at most once; when a binding removes or moves the node
\* being bound, every sibling that followed it is still bound exactly once;
\* and the children of a virtual element are bound as children of its
\* start comment.
C20_AsStated == [][WalkStep(InitChangesDocument)]_vars

\* C20: in one traversal the children of every container the call goes
\* into are bound in document order and each at most once; when a binding
\* removes the node being bound from the document, and no binding moves
\* one, every sibling that followed it is still bound exactly once; and the
\* children of a virtual element are bound after its start comment and
\* before its childrenComplete.
C20_Removed == [][WalkStep({"removes"})]_vars

\* A traversal from the root in which an element or a start comment was
\* removed by its own binding and the element after it was bound, the
\* first element and the child of the virtual element too.
C20_Witness ==
    /\ last.op = "applyBindings" /\ last.node = 1 /\ last.err = NoErr
    /\ \E n \in {2, 3} :
          /\ dom.decl[n].keys = <<"b">>
          /\ n \notin Range(dom.kids[1])
          /\ BoundIn(last.log, n)
    /\ BoundIn(last.log, 2) /\ BoundIn(last.log, 4) /\ BoundIn(last.log, 6)

---------------------------------------------------------------------------
(* The update specification: an element with a child that has a child of   *)
(* its own.  The host applies bindings, writes observables and removes     *)
(* nodes.  The reactive runtime is a collaborator: a computed made with    *)
(* disposeWhenNodeIsRemoved runs its function again, in the call that      *)
(* changes a value its last run read, until its node has left the          *)
(* document.                                                               *)

\* The most runs of one computed in a behaviour.
MaxRuns == 3

\* Binding a has init and update, b update only, c init only.
ReactRegistry ==
    [k \in Keys |->
        CASE k = "a" -> Handler(<<>>, FALSE, "plain", "plain", TRUE)
          [] k = "b" -> Handler(<<>>, FALSE, "none", "plain", TRUE)
          [] k = "c" -> Handler(<<>>, FALSE, "plain", "none", TRUE)
          [] OTHER -> NoHandler]

ReactDeclarations == {NoDecl, Decl(<<"a">>), Decl(<<"b", "c">>)}

ReactDocument(d2, d3) ==
    [kind |-> <<"div", "div", "div">>,
     kids |-> << <<2>>, <<3>>, <<>> >>,
     decl |-> <<NoDecl, d2, d3>>]

\* The observables the value accessor of a binding reads when its handler
\* calls it: that of a reads o1, and o2 while o1 holds vm1; that of b
\* reads o2; that of c reads o1.
AccessorReadsOf(bindingKey, O) ==
    CASE bindingKey = "a" -> IF O["o1"] = "vm1" THEN {"o1", "o2"} ELSE {"o1"}
      [] bindingKey = "b" -> {"o2"}
      [] OTHER -> {"o1"}

\* Node n is in the document whose root is node 1.
InDocument(kids, n) == n = 1 \/ \E q \in DOMAIN kids : n \in Range(kids[q])
                                                        /\ (q = 1 \/ q \in Range(kids[1]))

\* The computeds a call made: one for every function that
\* dependentObservable ran, with the dependencies of that run.
NewComputeds(log, O) ==
    LET tracked == SelectSeq(log, LAMBDA e : e.tracked)
    IN  [i \in DOMAIN tracked |->
            [node |-> tracked[i].node, key |-> tracked[i].key,
             deps |-> AccessorReadsOf(tracked[i].key, O), live |-> TRUE, runs |-> 1]]

\* A binding call of the host returned.
FinishReact(W, op, node, keys, ctx) ==
    /\ info' = W.info
    /\ gen' = W.gen
    /\ tagged' = W.tagged
    /\ dom' = [dom EXCEPT !.kids = W.kids]
    /\ last' = [op |-> op, node |-> node, keys |-> keys, ctx |-> ctx,
                log |-> W.log, err |-> W.err, n |-> last.n + 1]
    /\ bound' = [n \in Nodes |-> bound[n] \o BindingsOf(W.log, n)]
    /\ computeds' = computeds \o NewComputeds(W.log, store)
    /\ UNCHANGED <<handlers, heap, store>>

ReactApplyBindings ==
    /\ last.n < MaxCalls
    /\ \E rootNode \in {n \in Nodes : InDocument(dom.kids, n)} :
          FinishReact(applyBindings(World, RootContext("vm1"), rootNode),
                      "applyBindings", rootNode, <<>>, RootContext("vm1"))

ReactApplyBindingsToNode ==
    /\ last.n < MaxCalls
    /\ \E node \in {n \in Nodes : InDocument(dom.kids, n)}, keys \in {<<"a">>, <<"b", "c">>} :
          FinishReact(applyBindingAccessorsToNode(World, node, Source(keys),
                                                   RootContext("vm1")),
                      "applyBindingsToNode", node, keys, RootContext("vm1"))

\* Computed i runs again when observable o changes.
RunsAgain(i, o) == computeds[i].live /\ o \in computeds[i].deps

\* observable(value) with a value that differs from the current one: the
\* computeds that read the observable in their last run run again.
ReactWrite ==
    \E o \in Observables : \E v \in ViewModels \ {store[o]} :
        LET again == SelectSeq([i \in DOMAIN computeds |-> i], LAMBDA i : RunsAgain(i, o))
        IN  /\ \A i \in Range(again) : computeds[i].runs < MaxRuns
            /\ store' = [store EXCEPT ![o] = v]
            /\ computeds' = [i \in DOMAIN computeds |->
                               IF RunsAgain(i, o)
                               THEN [computeds[i] EXCEPT
                                       !.runs = @ + 1,
                                       !.deps = AccessorReadsOf(computeds[i].key, store')]
                               ELSE computeds[i]]
            /\ last' = [op |-> "write", node |-> 0, keys |-> <<o>>, ctx |-> NoCtx,
                        log |-> [j \in DOMAIN again |->
                                    [Ev("update", computeds[again[j]].node) EXCEPT
                                        !.key = computeds[again[j]].key, !.tracked = TRUE]],
                        err |-> NoErr, n |-> last.n]
            /\ UNCHANGED <<handlers, dom, info, gen, tagged, bound, heap>>

\* removeNode(node) on a node of the document other than its root: the
\* computeds of the nodes that left the document with it are disposed.
ReactRemoveNode ==
    \E node \in Nodes \ {1} :
        LET Removed(W) ==
                /\ info' = W.info
                /\ gen' = W.gen
                /\ tagged' = W.tagged
                /\ dom' = [dom EXCEPT !.kids = W.kids]
                /\ computeds' = [i \in DOMAIN computeds |->
                                   [computeds[i] EXCEPT
                                       !.live = @ /\ InDocument(W.kids, computeds[i].node)]]
                /\ last' = [op |-> "removeNode", node |-> node, keys |-> <<>>,
                            ctx |-> NoCtx, log |-> W.log, err |-> W.err, n |-> last.n]
        IN  /\ InDocument(dom.kids, node)
            /\ Removed(removeNode(World, node))
            /\ UNCHANGED <<handlers, bound, heap, store>>

InitReact ==
    /\ handlers = ReactRegistry
    /\ \E d2 \in ReactDeclarations \ {NoDecl}, d3 \in ReactDeclarations :
          dom = ReactDocument(d2, d3)
    /\ info = [n \in 1..3 |-> NoInfo]
    /\ gen = [n \in 1..3 |-> 0]
    /\ tagged = {}
    /\ last = NoOp
    /\ bound = [n \in 1..3 |-> <<>>]
    /\ heap = <<>>
    /\ computeds = <<>>
    /\ store = [o \in Observables |-> "vm1"]

NextReact ==
    \/ ReactApplyBindings
    \/ ReactApplyBindingsToNode
    \/ ReactWrite
    \/ ReactRemoveNode

SpecReact == InitReact /\ [][NextReact]_vars

---------------------------------------------------------------------------
(* Properties of the update specification.                                 *)

\* The positions in a log at which function f ("init" or "update") of
\* binding k ran on node n.
RunsOf(log, f, n, k) ==
    {j \in DOMAIN log : log[j].ev = f /\ log[j].node = n /\ log[j].key = k}

\* How many times a log applies binding k to node n; keys are those of an
\* explicit application.
ApplicationsOf(log, keys, n, k) ==
    Cardinality({j \in DOMAIN log :
                    /\ log[j].ev = "bind" /\ log[j].node = n
                    /\ k \in Range(IF log[j].key = "explicit" THEN keys
                                   ELSE getBindingAccessors(n).keys)})

\* What a step does with the functions of the bindings: a binding call
\* runs init once and update once for every binding it applies and makes
\* one computed for each update; a write runs no init, and runs once the
\* update of every computed whose last run read the observable written and
\* whose node is in the document, and no other.
UpdateStep ==
    LET log == last'.log
        written == {o \in Observables : store'[o] # store[o]}
        Again(i) == /\ InDocument(dom.kids, computeds[i].node)
                    /\ written \cap computeds[i].deps # {}
        Made(n, k) == {i \in DOMAIN computeds' \ DOMAIN computeds :
                          computeds'[i].node = n /\ computeds'[i].key = k}
    IN  /\ DOMAIN computeds \subseteq DOMAIN computeds'
        /\ \A i \in DOMAIN computeds :
              computeds'[i].runs = computeds[i].runs + (IF Again(i) THEN 1 ELSE 0)
        /\ \A i \in DOMAIN computeds' \ DOMAIN computeds : computeds'[i].runs = 1
        /\ \A n \in Nodes, k \in HandlerKeys :
              IF written # {}
              THEN /\ RunsOf(log, "init", n, k) = {}
                   /\ Cardinality(RunsOf(log, "update", n, k))
                        = Cardinality({i \in DOMAIN computeds :
                                          /\ computeds[i].node = n /\ computeds[i].key = k
                                          /\ Again(i)})
              ELSE /\ Cardinality(RunsOf(log, "init", n, k))
                        = IF handlers[k].init # "none"
                          THEN ApplicationsOf(log, last'.keys, n, k) ELSE 0
                   /\ Cardinality(RunsOf(log, "update", n, k))
                        = IF handlers[k].update # "none"
                          THEN ApplicationsOf(log, last'.keys, n, k) ELSE 0
                   /\ Cardinality(Made(n, k)) = Cardinality(RunsOf(log, "update", n, k))

\* C22: for each binding applied to a node, init runs once per application
\* and never when a value it read changes; update runs once in the
\* application and then once for each change of a value its last run read,
\* until the node has left the document, and never after.
C22_InitOnceUpdateTracked == [][UpdateStep]_vars

\* A computed that ran MaxRuns times and whose node then left the
\* document: an observable its last run read was written, and nothing ran.
C22_Witness ==
    /\ last.op = "write"
    /\ last.log = <<>>
    /\ \E i \in DOMAIN computeds :
          /\ computeds[i].runs = MaxRuns
          /\ ~computeds[i].live
          /\ last.keys[1] \in computeds[i].deps

---------------------------------------------------------------------------
(* The failure specification: calls of applyBindings and                   *)
(* applyBindingsToDescendants on a document some of whose bindings have a  *)
(* handler that throws: the init of b, the update of c.  The nodes are     *)
(* numbered in document order.                                             *)

FailRegistry ==
    [k \in Keys |->
        CASE k = "a" -> Handler(<<>>, FALSE, "plain", "plain", TRUE)
          [] k = "b" -> Handler(<<>>, FALSE, "throws", "plain", TRUE)
          [] k = "c" -> Handler(<<>>, FALSE, "plain", "throws", TRUE)
          [] OTHER -> NoHandler]

FailDeclarations ==
    {Decl(<<"a", EVENT_CHILDREN_COMPLETE>>), Decl(<<"a", "b">>), Decl(<<"c", "a">>),
     Decl(<<"a", EVENT_DESCENDENTS_COMPLETE>>), Decl(<<EVENT_DESCENDENTS_COMPLETE, "b">>)}

FailDocument(d) ==
    [kind |-> <<"div", "div", "div", "ko", "div", "/ko", "div">>,
     kids |-> << <<2, 4, 5, 6, 7>>, <<3>>, <<>>, <<>>, <<>>, <<>>, <<>> >>,
     decl |-> <<d[1], d[2], d[3], d[4], d[5], NoDecl, Decl(<<"a", EVENT_CHILDREN_COMPLETE>>)>>]

InitFail ==
    /\ handlers = FailRegistry
    /\ \E d \in [1..5 -> FailDeclarations] : dom = FailDocument(d)
    /\ info = [n \in 1..7 |-> NoInfo]
    /\ gen = [n \in 1..7 |-> 0]
    /\ tagged = {}
    /\ last = NoOp
    /\ bound = [n \in 1..7 |-> <<>>]
    /\ heap = <<>>
    /\ computeds = <<>>
    /\ store = [o \in Observables |-> "vm1"]

FailApplyBindings == last.n < MaxCalls /\ ApplyBindings({RootContext("vm1")})

FailApplyBindingsToDescendants ==
    last.n < MaxCalls /\ ApplyBindingsToDescendants({RootContext("vm1")})

NextFail ==
    \/ FailApplyBindings
    \/ FailApplyBindingsToDescendants

SpecFail == InitFail /\ [][NextFail]_vars

\* The entry of a log is a run of a handler function that throws.
Throws(e) ==
    \/ e.ev = "init" /\ handlers[e.key].init = "throws"
    \/ e.ev = "update" /\ handlers[e.key].update = "throws"

\* The nodes that have n among their children or their descendants.
AncestorsOf(n) == {a \in Nodes : n \in DescendantsOf(a)}

\* C23: when an init or an update throws during a call, the throwing run
\* is the last thing the call did, and the call ends with the handler's
\* error, which names the node and the binding; no node later in the
\* document was bound by the call; childrenComplete was notified neither
\* for the node nor for any of its ancestors; and what the call applied
\* before stays applied.
C23_HandlerFailureAborts ==
    \A j \in DOMAIN last.log :
        Throws(last.log[j])
        => LET f == last.log[j].node IN
           /\ j = Len(last.log)
           /\ last.err.type = "Handler"
           /\ last.err.node = f
           /\ last.err.binding = last.log[j].key
           /\ \A i \in DOMAIN last.log :
                 LET e == last.log[i] IN
                 /\ e.ev = "bind" => e.node <= f
                 /\ (e.ev = "notify" /\ e.key = EVENT_CHILDREN_COMPLETE)
                    => e.node \notin {f} \cup AncestorsOf(f)
                 /\ e.ev = "bind"
                    => /\ info[e.node].exists
                       /\ info[e.node].alreadyBound
                       /\ bound[e.node] # <<>>

\* The update of c threw on the child of the virtual element, after the
\* init of c had run there and the element before it and its child had
\* been bound and completed.
C23_Witness ==
    /\ last.err.type = "Handler"
    /\ last.err.node = 5
    /\ last.err.binding = "c"
    /\ RunsOf(last.log, "init", 5, "c") # {}
    /\ BoundIn(last.log, 3)
    /\ \E i \in DOMAIN last.log :
          /\ last.log[i].ev = "notify" /\ last.log[i].key = EVENT_CHILDREN_COMPLETE
          /\ last.log[i].node = 2

\* Node n carries a childrenComplete callback binding.
HasChildrenCompleteBinding(n) == EVENT_CHILDREN_COMPLETE \in Range(getBindingAccessors(n).keys)

\* The runs of the childrenComplete callback of node n in a log, and the
\* childrenComplete notifications of n.
CallbacksOf(log, n) ==
    {i \in DOMAIN log : log[i].ev = "childrenCompleteCallback" /\ log[i].node = n}

PassesOf(log, n) ==
    {j \in DOMAIN log : /\ log[j].ev = "notify" /\ log[j].node = n
                        /\ log[j].key = EVENT_CHILDREN_COMPLETE}

\* The child list of node n as childNodes(n) gives it: the child nodes of
\* an element, the nodes between the markers of a virtual element.
RealizedChildren(n) == childNodes(World, n).val

\* The callback of node n ran once for every pass over the children of n
\* that the log completes, right after the pass, with the children and the
\* data of the first.
CalledBackPerPass(log, n) ==
    /\ Cardinality(CallbacksOf(log, n)) = Cardinality(PassesOf(log, n))
    /\ \A j \in PassesOf(log, n) :
          /\ j + 1 \in CallbacksOf(log, n)
          /\ log[j + 1].nodes = RealizedChildren(n)
          /\ RealizedChildren(n) # <<>>
          /\ log[j + 1].data = dataFor(RealizedChildren(n)[1])

\* C24 as stated: the callback of every node that carries the binding,
\* one without children included, runs once per pass.
C24_AsStated ==
    \A n \in Nodes :
        (HasChildrenCompleteBinding(n) /\ BoundIn(last.log, n))
        => CalledBackPerPass(last.log, n)

\* C24: the callback of a node that carries the binding and has children
\* runs once per pass over them, with the child list and the first child's
\* data; the callback of a node without children never runs.  A call that
\* binds the node and ends without error makes one pass.
C24_CallbackWhenChildren ==
    \A n \in Nodes :
        (HasChildrenCompleteBinding(n) /\ BoundIn(last.log, n))
        => /\ last.err = NoErr => Cardinality(PassesOf(last.log, n)) = 1
           /\ IF RealizedChildren(n) = <<>> THEN CallbacksOf(last.log, n) = {}
              ELSE CalledBackPerPass(last.log, n)

\* A call that ran the callback of the virtual element with its child and
\* completed the pass over the last element, which has no children,
\* without running its callback.
C24_Witness ==
    /\ last.err = NoErr
    /\ HasChildrenCompleteBinding(4)
    /\ \E i \in CallbacksOf(last.log, 4) : last.log[i].nodes = <<5>>
    /\ PassesOf(last.log, 7) # {}
    /\ CallbacksOf(last.log, 7) = {}

---------------------------------------------------------------------------
(* The iteration over a virtual element's children.                        *)

\* The last call iterated over the children of a start comment whose
\* siblings are well-formed marker pairs.
WalkedContainer ==
    /\ last.op = "walkChildren"
    /\ Balanced(dom.kids[1], 1, Len(dom.kids[1]))

\* The iteration visited the top-level children of the container, in
\* document order, and raised nothing.
VisitedTopLevel ==
    /\ last.err = NoErr
    /\ last.log[1].nodes = TopLevelNodes(dom.kids[1], IndexOf(dom.kids[1], last.node) + 1, 0)

\* The end comment that closes the start comment of the last call.
ClosingComment ==
    dom.kids[1][MatchedEnd(dom.kids[1], IndexOf(dom.kids[1], last.node))]

\* C25: firstChild of the start comment of a well-formed virtual element
\* and then nextSibling, repeated, visits the top-level children of the
\* element in document order, a nested element as its start comment only,
\* ends with null and raises no structural error, whether a scan has
\* passed the element's end comment before or not.
C25_AsStated == WalkedContainer => VisitedTopLevel

\* The same for an element whose end comment a scan has tagged.
C25_AfterScan == (WalkedContainer /\ ClosingComment \in tagged) => VisitedTopLevel

\* The iteration over a well-formed element with a child, whose end
\* comment no scan had passed, raised the error of an end comment that
\* nothing opens.
C25_Witness ==
    /\ WalkedContainer
    /\ ClosingComment \notin tagged
    /\ TopLevelNodes(dom.kids[1], IndexOf(dom.kids[1], last.node) + 1, 0) # <<>>
    /\ last.err.type = "UnmatchedEndComment"
    /\ last.err.type \in STRUCTURAL_ERRORS

---------------------------------------------------------------------------
(* The records of the nodes.                                               *)

\* C26: every record a node has, whichever operation made it, has its
\* notifiedEvents object, and no notify and no subscribe fails for the
\* lack of it.
C26_AsStated ==
    /\ \A n \in Nodes : info[n].exists => info[n].hasNotifiedEvents
    /\ last.op \in {"notify", "subscribe"} => last.err.type # "TypeError"

\* The records that binding application made or went through have the
\* object.
C26_BoundRecords ==
    \A n \in Nodes :
        (info[n].exists /\ ~info[n].hasNotifiedEvents)
        => /\ ~info[n].alreadyBound
           /\ info[n].ac = "undefined"
           /\ info[n].hasEventSubscribable

\* A notify on a node whose record a subscribe made failed on the
\* property of undefined.
C26_Witness ==
    /\ last.op = "notify"
    /\ last.err.type = "TypeError"
    /\ info[last.node].exists
    /\ ~info[last.node].hasNotifiedEvents
    /\ info[last.node].subs # <<>>

---------------------------------------------------------------------------
(* Failed applications and the tracking of descendants.                    *)

\* The errors that binding application to a node raises.
BindingErrors == {"CyclicDependency", "VirtualNotAllowed", "Conflict", "Handler"}

\* Node n is an outstanding descendant of the active context of a node.
Outstanding(n) ==
    \E a \in Nodes : info[a].exists /\ info[a].ac = "active" /\ n \in Range(info[a].acDesc)

\* C28: after a call in which binding application to a node failed, the
\* node is an outstanding descendant of no active context.
C28_AsStated == last.err.type \in BindingErrors => ~Outstanding(last.err.node)

\* The init of b threw on the child of an element that tracks its
\* descendants; the child asked for descendantsComplete too, and is left
\* in the element's list with a context of its own that is active.
C28_Witness ==
    /\ last.err.type = "Handler"
    /\ last.err.node = 3
    /\ info[2].ac = "active"
    /\ info[2].acDesc = <<3>>
    /\ info[3].ac = "active"
    /\ info[3].acAnc.node = 2

\* C29: between the calls of the host, the list of outstanding descendants
\* of every active context holds no node twice, and every node in it has
\* an active context of its own whose ancestor is the record of that list;
\* so a node that completed or was disposed is in no such list.
C29_OutstandingLinked ==
    \A a \in Nodes :
        (info[a].exists /\ info[a].ac = "active")
        => /\ IsInjective(info[a].acDesc)
           /\ \A n \in Range(info[a].acDesc) :
                 /\ info[n].exists
                 /\ info[n].ac = "active"
                 /\ info[n].acAnc = [node |-> a, gen |-> gen[a]]

\* Two descendants registered with the element; one of them has completed
\* or was disposed since and has left the list, the other is outstanding.
C29_Witness ==
    /\ info[1].exists /\ info[1].ac = "active"
    /\ info[1].acRegistered = {2, 3}
    /\ Len(info[1].acDesc) = 1
    /\ \E n \in {2, 3} : n \notin Range(info[1].acDesc) /\ info[n].ac # "active"

===========================================================================
